---- MODULE Spec2Model ----
(***************************************************************************)
(* A model of the proptest shrinking engine: the integer binary-search     *)
(* value tree, the Fuse wrapper, the Flatten / Array / RangeSubset /       *)
(* Filter value trees, and the TestRunner case loop with its reject and    *)
(* shrink budgets and the failure-persistence replay queue.                *)
(***************************************************************************)
EXTENDS Integers, Sequences, FiniteSets, TLC

VARIABLES flat, regens, fh, mayReject, arr, rs, filt, live, run, config, pred,
          rn, store, un, det, env, sm, minimal, hooks

(* ---------------------------------------------------------------------- *)
(* Bounds                                                                  *)
(* ---------------------------------------------------------------------- *)

\* the outer strategy of the flat-map is the range 0..MetaEnd (exclusive)
MetaEnd == 5
\* the inner strategy for outer value a is the range a-Delta..a+Delta (exclusive)
Delta == 2
\* Config.cases
Cases == 2
\* Config.max_flat_map_regens
MaxFlatMapRegens == 2
\* a Config.max_flat_map_regens no shrink of the model exhausts
AmpleRegens == 1000
\* the array strategy is ArrayLen ranges 0..ElemEnd (exclusive)
ArrayLen == 2
ElemEnd == 4
\* range_subset samples from RangeStart..RangeStart+RangeLen (exclusive)
RangeStart == 1
RangeLen == 3
\* the filtered strategy is the range 0..FilterEnd (exclusive), kept when
\* divisible by FilterMod
FilterEnd == 10
FilterMod == 3
\* Config.max_local_rejects and Config.max_global_rejects
MaxLocalRejects == 2
MaxGlobalRejects == 2
\* a run draws from the range 0..RunEnd (exclusive); seeds are 0..RunEnd-1
RunEnd == 4
\* the longest list of persisted seeds a run starts with
MaxStored == 2
\* the most fresh cases a run of the model generates
MaxFresh == 3
\* the flat-map test fails when a > Thresh and b > a
Thresh == 2
\* the largest explicit Config.max_shrink_iters tried
MaxShrinkIters == 2

\* Option and Result values are sequences: <<>> is None / Err, <<v>> is
\* Some(v) / Ok(v)
None == <<>>
Some(v) == <<v>>
IsSome(o) == Len(o) = 1
Unwrap(o) == o[1]

Min(x, y) == IF x < y THEN x ELSE y
Max(x, y) == IF x > y THEN x ELSE y

\* Rust's integer division truncates towards zero
TruncDiv2(x) == IF x >= 0 THEN x \div 2 ELSE -((-x) \div 2)

(* ---------------------------------------------------------------------- *)
(* num::BinarySearch: the value tree of an integer range                   *)
(* ---------------------------------------------------------------------- *)

BinarySearch_new_clamped(lo, start, hi) ==
    [lo   |-> IF start < 0 THEN Min(0, hi - 1) ELSE Max(0, lo),
     curr |-> start,
     hi   |-> start]

magnitude_greater(lhs, rhs) ==
    IF lhs = 0 THEN FALSE
    ELSE IF lhs < 0 THEN lhs < rhs
    ELSE lhs > rhs

BinarySearch_reposition(t) ==
    LET interval == t.hi - t.lo
        new_mid  == t.lo + TruncDiv2(interval)
    IN IF new_mid = t.curr
       THEN [t |-> t, ret |-> FALSE]
       ELSE [t |-> [t EXCEPT !.curr = new_mid], ret |-> TRUE]

BinarySearch_simplify(t) ==
    IF ~magnitude_greater(t.hi, t.lo)
    THEN [t |-> t, ret |-> FALSE]
    ELSE BinarySearch_reposition([t EXCEPT !.hi = t.curr])

BinarySearch_complicate(t) ==
    IF ~magnitude_greater(t.hi, t.lo)
    THEN [t |-> t, ret |-> FALSE]
    ELSE BinarySearch_reposition(
            [t EXCEPT !.lo = t.curr + (IF t.hi < 0 THEN -1 ELSE 1)])

(* ---------------------------------------------------------------------- *)
(* strategy::Fuse over a binary search                                     *)
(* ---------------------------------------------------------------------- *)

Fuse_new(inner) ==
    [inner |-> inner, may_simplify |-> TRUE, may_complicate |-> FALSE]

Fuse_disallow_simplify(f) == [f EXCEPT !.may_simplify = FALSE]

Fuse_disallow_complicate(f) == [f EXCEPT !.may_complicate = FALSE]

Fuse_simplify(f) ==
    IF f.may_simplify
    THEN LET r == BinarySearch_simplify(f.inner)
         IN IF r.ret
            THEN [t |-> [f EXCEPT !.inner = r.t, !.may_complicate = TRUE],
                  ret |-> TRUE]
            ELSE [t |-> [f EXCEPT !.inner = r.t, !.may_simplify = FALSE],
                  ret |-> FALSE]
    ELSE [t |-> f, ret |-> FALSE]

Fuse_complicate(f) ==
    IF f.may_complicate
    THEN LET r == BinarySearch_complicate(f.inner)
         IN IF r.ret
            THEN [t |-> [f EXCEPT !.inner = r.t, !.may_simplify = TRUE],
                  ret |-> TRUE]
            ELSE [t |-> [f EXCEPT !.inner = r.t, !.may_complicate = FALSE],
                  ret |-> FALSE]
    ELSE [t |-> f, ret |-> FALSE]

(* ---------------------------------------------------------------------- *)
(* strategy::Flatten, for (0..MetaEnd).prop_flat_map(|a| (Just(a),         *)
(* a-Delta..a+Delta)).  The outer tree is the binary search over a; the    *)
(* inner tree is the binary search over b, tagged with the a it was drawn  *)
(* for (the Just(a) slot of the tuple never shrinks).                      *)
(* ---------------------------------------------------------------------- *)

\* the outcomes of new_tree on the inner strategy chosen by outer value a
Draws(a, rejecting) ==
    {Some(b) : b \in (a - Delta) .. (a + Delta - 1)}
        \cup (IF rejecting THEN {None} ELSE {})

\* Range::new_tree for the inner strategy of outer value a, sample b
InnerNewTree(a, b) ==
    [a |-> a] @@ BinarySearch_new_clamped(a - Delta, b, a + Delta)

\* TestRunner::flat_map_regen: fetch_add(1) < max_flat_map_regens
flat_map_regen(cfg, rg) ==
    [ok |-> rg < cfg.max_flat_map_regens, regens |-> rg + 1]

\* FlattenValueTree::new
FlattenValueTree_new(a, b) ==
    [meta |-> Fuse_new(BinarySearch_new_clamped(0, a, MetaEnd)),
     current |-> Fuse_new(InnerNewTree(a, b)),
     last_complication |-> None,
     complicate_regen_remaining |-> 0]

\* FlattenValueTree::current
FlattenCurrent(ft) == <<ft.current.inner.a, ft.current.inner.curr>>

\* mutant of the tail of simplify(): the inner tree of before the call is
\* not remembered
FlattenSimplifyInner_forgets(ft, meta1, cur0) ==
    LET cs == Fuse_simplify(cur0)
    IN [t |-> [meta |-> meta1, current |-> cs.t,
               last_complication |-> ft.last_complication,
               complicate_regen_remaining |-> 0],
        ret |-> cs.ret, drew |-> 0]

\* the tail of simplify(): the outer axis gave nothing, shrink the inner tree
FlattenSimplifyInner(ft, meta1, cur0) ==
    LET old_current == Fuse_disallow_simplify(cur0)
        cs == Fuse_simplify(cur0)
    IN IF cs.ret
       THEN [t |-> [meta |-> meta1, current |-> cs.t,
                    last_complication |-> Some(old_current),
                    complicate_regen_remaining |-> 0],
             ret |-> TRUE, drew |-> 0]
       ELSE [t |-> [meta |-> meta1, current |-> cs.t,
                    last_complication |-> ft.last_complication,
                    complicate_regen_remaining |-> 0],
             ret |-> FALSE, drew |-> 0]

\* mutant of FlattenValueTree::simplify: after a successful outer simplify the
\* inner tree is not redrawn
FlattenSimplify_keepsInner(ft, cfg, d) ==
    LET cur0 == Fuse_disallow_complicate(ft.current)
        ms   == Fuse_simplify(ft.meta)
    IN IF ms.ret
       THEN IF IsSome(d)
            THEN [t |-> [meta |-> ms.t,
                         current |-> cur0,
                         last_complication |-> Some(cur0),
                         complicate_regen_remaining |-> cfg.cases],
                  ret |-> TRUE, drew |-> 1]
            ELSE FlattenSimplifyInner(ft, Fuse_disallow_simplify(ms.t), cur0)
       ELSE FlattenSimplifyInner(ft, ms.t, cur0)

\* FlattenValueTree::simplify; d is the outcome of the new_tree call it makes
\* on the outer value after a successful outer simplify
FlattenSimplify(ft, cfg, d) ==
    LET cur0 == Fuse_disallow_complicate(ft.current)
        ms   == Fuse_simplify(ft.meta)
    IN IF ms.ret
       THEN IF IsSome(d)
            THEN [t |-> [meta |-> ms.t,
                         current |-> Fuse_new(InnerNewTree(ms.t.inner.curr, Unwrap(d))),
                         last_complication |-> Some(cur0),
                         complicate_regen_remaining |-> cfg.cases],
                  ret |-> TRUE, drew |-> 1]
            ELSE FlattenSimplifyInner(ft, Fuse_disallow_simplify(ms.t), cur0)
       ELSE FlattenSimplifyInner(ft, ms.t, cur0)

\* mutant of the tail of complicate(): the remembered tree is taken but not
\* put back as the current tree
FlattenComplicateTail_noRestore(ft, rg, budgeted) ==
    LET cc == Fuse_complicate(ft.current)
    IN IF cc.ret
       THEN [t |-> [ft EXCEPT !.current = cc.t], ret |-> TRUE,
             regens |-> rg, drew |-> 0, budgeted |-> budgeted]
       ELSE IF IsSome(ft.last_complication)
       THEN [t |-> [ft EXCEPT !.current = cc.t,
                              !.last_complication = None],
             ret |-> TRUE, regens |-> rg, drew |-> 0, budgeted |-> budgeted]
       ELSE [t |-> [ft EXCEPT !.current = cc.t], ret |-> FALSE,
             regens |-> rg, drew |-> 0, budgeted |-> budgeted]

\* the tail of complicate(): complicate the inner tree in place, else restore
\* the remembered tree
FlattenComplicateTail(ft, rg, budgeted) ==
    LET cc == Fuse_complicate(ft.current)
    IN IF cc.ret
       THEN [t |-> [ft EXCEPT !.current = cc.t], ret |-> TRUE,
             regens |-> rg, drew |-> 0, budgeted |-> budgeted]
       ELSE IF IsSome(ft.last_complication)
       THEN [t |-> [ft EXCEPT !.current = Unwrap(ft.last_complication),
                              !.last_complication = None],
             ret |-> TRUE, regens |-> rg, drew |-> 0, budgeted |-> budgeted]
       ELSE [t |-> [ft EXCEPT !.current = cc.t], ret |-> FALSE,
             regens |-> rg, drew |-> 0, budgeted |-> budgeted]

\* the middle of complicate(): complicate the outer tree and redraw
FlattenComplicateMeta(ft, cfg, rg, budgeted, d2) ==
    LET mc == Fuse_complicate(ft.meta)
    IN IF mc.ret /\ IsSome(d2)
       THEN [t |-> [ft EXCEPT !.meta = mc.t,
                       !.current = Fuse_new(InnerNewTree(mc.t.inner.curr, Unwrap(d2))),
                       !.complicate_regen_remaining = cfg.cases],
             ret |-> TRUE, regens |-> rg, drew |-> 1, budgeted |-> budgeted]
       ELSE FlattenComplicateTail([ft EXCEPT !.meta = mc.t], rg, budgeted)

\* FlattenValueTree::complicate; rg is the runner's shared regeneration
\* counter, d1 the outcome of the new_tree call of the regeneration branch,
\* d2 that of the new_tree call after an outer complicate
FlattenComplicate(ft, cfg, rg, d1, d2) ==
    IF ft.complicate_regen_remaining > 0
    THEN LET fr == flat_map_regen(cfg, rg)
         IN IF fr.ok
            THEN LET ft1 == [ft EXCEPT !.complicate_regen_remaining = @ - 1]
                 IN IF IsSome(d1)
                    THEN [t |-> [ft1 EXCEPT !.current =
                                   Fuse_new(InnerNewTree(ft.meta.inner.curr, Unwrap(d1)))],
                          ret |-> TRUE, regens |-> fr.regens,
                          drew |-> 1, budgeted |-> 1]
                    ELSE FlattenComplicateMeta(ft1, cfg, fr.regens, 1, d2)
            ELSE FlattenComplicateMeta(
                    [ft EXCEPT !.complicate_regen_remaining = 0],
                    cfg, fr.regens, 0, d2)
    ELSE FlattenComplicateMeta(ft, cfg, rg, 0, d2)

\* the outcomes of the new_tree call simplify() makes: one is made only after
\* a successful outer simplify
SimplifyDraws(ft, rejecting) ==
    LET ms == Fuse_simplify(ft.meta)
    IN IF ms.ret THEN Draws(ms.t.inner.curr, rejecting) ELSE {None}

\* the outcomes of the new_tree call of the regeneration branch of
\* complicate(): one is made only while regenerations remain and the runner
\* grants one
RegenDraws(ft, cfg, rg, rejecting) ==
    IF ft.complicate_regen_remaining > 0 /\ flat_map_regen(cfg, rg).ok
    THEN Draws(ft.meta.inner.curr, rejecting)
    ELSE {None}

\* the outcomes of the new_tree call complicate() makes after an outer
\* complicate: none is made when the regeneration d1 was drawn or the outer
\* tree cannot complicate
ComplicateDraws(ft, cfg, rg, d1, rejecting) ==
    LET regenerated == /\ ft.complicate_regen_remaining > 0
                       /\ flat_map_regen(cfg, rg).ok
                       /\ IsSome(d1)
        mc == Fuse_complicate(ft.meta)
    IN IF regenerated \/ ~mc.ret
       THEN {None}
       ELSE Draws(mc.t.inner.curr, rejecting)

(* ---------------------------------------------------------------------- *)
(* array::ArrayValueTree over ArrayLen integer ranges 0..ElemEnd           *)
(* ---------------------------------------------------------------------- *)

\* [S; N]::new_tree with the samples vs (slot i holds tree[i + 1])
ArrayNewTree(vs) ==
    [tree |-> [i \in 1 .. ArrayLen |->
                  BinarySearch_new_clamped(0, vs[i], ElemEnd)],
     shrinker |-> 0,
     last_shrinker |-> None]

\* ArrayValueTree::current
ArrayCurrent(t) == [i \in 1 .. ArrayLen |-> t.tree[i].curr]

RECURSIVE ArraySimplify_noReturn(_)
\* mutant of ArrayValueTree::simplify: the early return after a successful
\* slot simplify is missing, so the loop runs on and the call returns false
ArraySimplify_noReturn(t) ==
    IF t.shrinker < ArrayLen
    THEN LET r == BinarySearch_simplify(t.tree[t.shrinker + 1])
             t1 == [t EXCEPT !.tree[t.shrinker + 1] = r.t]
         IN IF r.ret
            THEN ArraySimplify_noReturn(
                    [t1 EXCEPT !.last_shrinker = Some(t.shrinker),
                               !.shrinker = @ + 1])
            ELSE ArraySimplify_noReturn([t1 EXCEPT !.shrinker = @ + 1])
    ELSE [t |-> t, ret |-> FALSE]

RECURSIVE ArraySimplify_noRecord(_)
\* mutant of ArrayValueTree::simplify: the slot that was simplified is not
\* recorded
ArraySimplify_noRecord(t) ==
    IF t.shrinker < ArrayLen
    THEN LET r == BinarySearch_simplify(t.tree[t.shrinker + 1])
             t1 == [t EXCEPT !.tree[t.shrinker + 1] = r.t]
         IN IF r.ret
            THEN [t |-> t1, ret |-> TRUE]
            ELSE ArraySimplify_noRecord([t1 EXCEPT !.shrinker = @ + 1])
    ELSE [t |-> t, ret |-> FALSE]

RECURSIVE ArraySimplify(_)
\* ArrayValueTree::simplify
ArraySimplify(t) ==
    IF t.shrinker < ArrayLen
    THEN LET r == BinarySearch_simplify(t.tree[t.shrinker + 1])
             t1 == [t EXCEPT !.tree[t.shrinker + 1] = r.t]
         IN IF r.ret
            THEN [t |-> [t1 EXCEPT !.last_shrinker = Some(t.shrinker)],
                  ret |-> TRUE]
            ELSE ArraySimplify([t1 EXCEPT !.shrinker = @ + 1])
    ELSE [t |-> t, ret |-> FALSE]

\* mutant of ArrayValueTree::complicate: the call changes nothing and returns
\* false
ArrayComplicate_refuses(t) == [t |-> t, ret |-> FALSE]

\* ArrayValueTree::complicate
ArrayComplicate(t) ==
    IF IsSome(t.last_shrinker)
    THEN LET shrinker == Unwrap(t.last_shrinker)
             r == BinarySearch_complicate(t.tree[shrinker + 1])
             t1 == [t EXCEPT !.shrinker = shrinker,
                             !.tree[shrinker + 1] = r.t]
         IN IF r.ret
            THEN [t |-> t1, ret |-> TRUE]
            ELSE [t |-> [t1 EXCEPT !.last_shrinker = None], ret |-> FALSE]
    ELSE [t |-> t, ret |-> FALSE]

(* ---------------------------------------------------------------------- *)
(* range_subset::RangeSubsetValueTree over the range                       *)
(* RangeStart..RangeStart+RangeLen                                         *)
(* ---------------------------------------------------------------------- *)

\* Range::nth
RangeNth(i) == RangeStart + i

RECURSIVE Shuffle(_, _, _, _, _)
\* the Fisher-Yates loop of RangeSubset::new_tree: swaps is the swap map
\* (absent keys map to themselves), js[i + 1] the sample drawn from
\* i..range_len at step i
Shuffle(i, count, swaps, values, js) ==
    IF i < count
    THEN LET j  == js[i + 1]
             iv == RangeNth(i)
             vi == swaps[iv]
             jv == RangeNth(j)
             vj == swaps[jv]
             swaps1 == [swaps EXCEPT ![iv] = vj]
             swaps2 == [swaps1 EXCEPT ![jv] = vi]
         IN Shuffle(i + 1, count, swaps2, Append(values, vj), js)
    ELSE values

\* VarBitSet::saturated
VarBitSet_saturated(len) == [i \in 1 .. len |-> TRUE]

\* VarBitSet::len
VarBitSet_len(bits) == Len(bits)

\* RangeSubset::new_tree for the size range min_size..=max_size, the sampled
\* count and the shuffle samples js
RangeSubsetNewTree(min_size, count, js) ==
    [values |-> Shuffle(0, count,
                        [v \in RangeStart .. (RangeStart + RangeLen - 1) |-> v],
                        <<>>, js),
     included_values |-> VarBitSet_saturated(count),
     shrink |-> 0,
     prev_shrink |-> None,
     min_size |-> min_size]

\* RangeSubsetValueTree::current
RECURSIVE SubsetCurrentFrom(_, _)
SubsetCurrentFrom(t, index) ==
    IF index >= Len(t.values) THEN <<>>
    ELSE (IF t.included_values[index + 1]
          THEN <<t.values[index + 1]>> ELSE <<>>)
         \o SubsetCurrentFrom(t, index + 1)

SubsetCurrent(t) == SubsetCurrentFrom(t, 0)

RECURSIVE SubsetSkip(_, _)
\* the while loop of simplify(): skip the excluded positions
SubsetSkip(t, shrink) ==
    IF shrink < Len(t.values) /\ ~t.included_values[shrink + 1]
    THEN SubsetSkip(t, shrink + 1)
    ELSE shrink

\* RangeSubsetValueTree::simplify
SubsetSimplify(t) ==
    IF VarBitSet_len(t.included_values) <= t.min_size
    THEN [t |-> t, ret |-> FALSE]
    ELSE LET shrink == SubsetSkip(t, t.shrink)
         IN IF shrink >= Len(t.values)
            THEN [t |-> [t EXCEPT !.shrink = shrink, !.prev_shrink = None],
                  ret |-> FALSE]
            ELSE [t |-> [t EXCEPT !.prev_shrink = Some(shrink),
                                  !.included_values[shrink + 1] = FALSE,
                                  !.shrink = shrink + 1],
                  ret |-> TRUE]

\* RangeSubsetValueTree::complicate
SubsetComplicate(t) ==
    IF IsSome(t.prev_shrink)
    THEN [t |-> [t EXCEPT !.included_values[Unwrap(t.prev_shrink) + 1] = TRUE,
                          !.prev_shrink = None],
          ret |-> TRUE]
    ELSE [t |-> t, ret |-> FALSE]

(* ---------------------------------------------------------------------- *)
(* strategy::Filter over the integer range 0..FilterEnd                    *)
(* ---------------------------------------------------------------------- *)

FilterKinds == {"mod", "never"}

\* the filter predicates: (0..256).prop_filter("%3", |&v| 0 == v % 3), a
\* predicate that rejects every value, the first predicate over a source
\* whose new_value can itself return an error, and the first predicate over a
\* source tree whose complicate() undoes nothing and returns false
FilterPred(kind, v) ==
    CASE kind = "mod"   -> 0 = v % FilterMod
      [] kind = "never" -> FALSE
      [] kind = "nested" -> 0 = v % FilterMod
      [] kind = "oneway" -> 0 = v % FilterMod
      [] OTHER          -> TRUE

\* the tree Filter::new_value returns for an accepted sample v
FilterValueTree_new(kind, v) ==
    [source |-> BinarySearch_new_clamped(0, v, FilterEnd),
     pred |-> kind,
     panicked |-> FALSE]

\* FilterValueTree::current
FilterCurrent(t) == t.source.curr

\* self.source.complicate()
SourceComplicate(t) ==
    IF t.pred = "oneway"
    THEN [t |-> t.source, ret |-> FALSE]
    ELSE BinarySearch_complicate(t.source)

\* mutant of ensure_acceptable: one complicate() instead of the loop
ensure_acceptable_once(t) ==
    IF ~FilterPred(t.pred, t.source.curr)
    THEN LET r == SourceComplicate(t)
         IN IF ~r.ret
            THEN [t EXCEPT !.source = r.t, !.panicked = TRUE]
            ELSE [t EXCEPT !.source = r.t]
    ELSE t

\* mutant of ensure_acceptable: when complicate() returns false the loop is
\* left without a panic
ensure_acceptable_giveUp(t) ==
    IF ~FilterPred(t.pred, t.source.curr)
    THEN [t EXCEPT !.source = SourceComplicate(t).t]
    ELSE t

RECURSIVE ensure_acceptable(_)
\* FilterValueTree::ensure_acceptable
ensure_acceptable(t) ==
    IF ~FilterPred(t.pred, t.source.curr)
    THEN LET r == SourceComplicate(t)
         IN IF ~r.ret
            THEN [t EXCEPT !.source = r.t, !.panicked = TRUE]
            ELSE ensure_acceptable([t EXCEPT !.source = r.t])
    ELSE t

\* FilterValueTree::simplify
FilterSimplify(t) ==
    LET r == BinarySearch_simplify(t.source)
    IN IF r.ret
       THEN [t |-> ensure_acceptable([t EXCEPT !.source = r.t]), ret |-> TRUE]
       ELSE [t |-> [t EXCEPT !.source = r.t], ret |-> FALSE]

\* FilterValueTree::complicate
FilterComplicate(t) ==
    LET r == SourceComplicate(t)
    IN IF r.ret
       THEN [t |-> ensure_acceptable([t EXCEPT !.source = r.t]), ret |-> TRUE]
       ELSE [t |-> [t EXCEPT !.source = r.t], ret |-> FALSE]

(* ---------------------------------------------------------------------- *)
(* strategy::Union over UnionLen integer ranges 0..UnionEnd                *)
(* ---------------------------------------------------------------------- *)

\* a Union has UnionLen branches, each the range 0..UnionEnd (exclusive)
UnionLen == 3
UnionEnd == 3

\* Union::new_tree: branch pick is active, with the samples vs
UnionNewTree(pick, vs) ==
    [options |-> [i \in 1 .. UnionLen |->
                     BinarySearch_new_clamped(0, vs[i], UnionEnd)],
     pick |-> pick, min_pick |-> 0, prev_pick |-> None]

\* mutant of UnionValueTree::simplify: when the active branch cannot simplify
\* the tree moves on to the next higher branch
UnionSimplify_nextBranch(t) ==
    IF t.pick > t.min_pick
    THEN [t |-> [t EXCEPT !.prev_pick = Some(t.pick), !.pick = @ - 1],
          ret |-> TRUE]
    ELSE LET r == BinarySearch_simplify(t.options[t.pick + 1])
         IN IF r.ret
            THEN [t |-> [t EXCEPT !.options[t.pick + 1] = r.t,
                                  !.prev_pick = None],
                  ret |-> TRUE]
            ELSE [t |-> [t EXCEPT !.options[t.pick + 1] = r.t,
                                  !.pick = IF @ + 1 < UnionLen THEN @ + 1 ELSE @],
                  ret |-> t.pick + 1 < UnionLen]

\* UnionValueTree::simplify: switch to the next lower branch while one is
\* reachable, else simplify the active branch
UnionSimplify(t) ==
    IF t.pick > t.min_pick
    THEN [t |-> [t EXCEPT !.prev_pick = Some(t.pick), !.pick = @ - 1],
          ret |-> TRUE]
    ELSE LET r == BinarySearch_simplify(t.options[t.pick + 1])
         IN [t |-> [t EXCEPT !.options[t.pick + 1] = r.t,
                             !.prev_pick = IF r.ret THEN None ELSE @],
             ret |-> r.ret]

\* UnionValueTree::complicate: undo the last branch switch, which then bounds
\* later switches, else complicate the active branch
UnionComplicate(t) ==
    IF IsSome(t.prev_pick)
    THEN [t |-> [t EXCEPT !.pick = Unwrap(t.prev_pick),
                          !.min_pick = Unwrap(t.prev_pick),
                          !.prev_pick = None],
          ret |-> TRUE]
    ELSE LET r == BinarySearch_complicate(t.options[t.pick + 1])
         IN [t |-> [t EXCEPT !.options[t.pick + 1] = r.t], ret |-> r.ret]

(* ---------------------------------------------------------------------- *)
(* test_runner::Config                                                     *)
(* ---------------------------------------------------------------------- *)

\* u32::MAX, held as the largest integer the model checker represents
U32Max == 2147483647

\* mutant of Config::max_shrink_iters(): the configured limit is ignored
max_shrink_iters_alwaysDefault(cfg) == Min(cfg.cases * 4, U32Max)

\* Config::max_shrink_iters()
max_shrink_iters(cfg) ==
    IF U32Max = cfg.max_shrink_iters
    THEN Min(cfg.cases * 4, U32Max)
    ELSE cfg.max_shrink_iters

(* ---------------------------------------------------------------------- *)
(* One value tree (Flatten, Array or RangeSubset) driven by arbitrary      *)
(* simplify()/complicate() calls                                           *)
(* ---------------------------------------------------------------------- *)

treeVars == <<flat, regens, mayReject, arr, rs, filt, live, fh, un>>
shrinkVars == <<run, pred>>
runVars == <<rn, store>>
lazyVars == <<det>>
auxVars == <<env, sm, minimal, hooks>>
vars == <<flat, regens, fh, mayReject, arr, rs, filt, live, run, config, pred,
          rn, store, un, det, env, sm, minimal, hooks>>

NoTree == <<>>

NoCall == [op |-> "new", ret |-> TRUE, exhaustedBefore |-> FALSE,
           exhausted |-> FALSE, drawn |-> 0, charged |-> 0,
           before |-> <<>>]

\* the history of calls: exhausted holds from a complicate() that returned
\* false until a simplify() that returns true
Called(op, ret, drew, budgeted, before) ==
    [op |-> op, ret |-> ret,
     exhaustedBefore |-> fh.exhausted,
     exhausted |-> IF op = "simplify"
                   THEN (IF ret THEN FALSE ELSE fh.exhausted)
                   ELSE (IF ret THEN fh.exhausted ELSE TRUE),
     drawn |-> fh.drawn + drew,
     charged |-> fh.charged + budgeted,
     before |-> before]

DefaultConfig ==
    [cases |-> Cases, max_shrink_iters |-> U32Max,
     max_flat_map_regens |-> MaxFlatMapRegens,
     max_local_rejects |-> MaxLocalRejects,
     max_global_rejects |-> MaxGlobalRejects]

\* the runner is not started
IdleShrink == run = [pc |-> "idle"] /\ pred = "none"

\* no run is in progress
IdleRun == rn = [pc |-> "idle"] /\ store = <<>>

\* no lazy tree exists
IdleLazy == det = <<>>

\* no environment is being read, no state machine test is running, no
\* minimal case is re-run and no panic hook is scoped
IdleAux == env = <<>> /\ sm = <<>> /\ minimal = <<>> /\ hooks = <<>>

\* Flatten::new_tree
FlatInit ==
    /\ live = "flatten"
    /\ mayReject \in BOOLEAN
    /\ \E a \in 0 .. (MetaEnd - 1) :
         \E d \in Draws(a, FALSE) : flat = FlattenValueTree_new(a, Unwrap(d))
    /\ regens = 0
    /\ arr = NoTree /\ rs = NoTree /\ filt = NoTree

\* [S; N]::new_tree
ArrayInit ==
    /\ live = "array"
    /\ \E vs \in [1 .. ArrayLen -> 0 .. (ElemEnd - 1)] : arr = ArrayNewTree(vs)
    /\ flat = NoTree /\ regens = 0 /\ mayReject = FALSE /\ rs = NoTree
    /\ filt = NoTree

\* RangeSubset::new_tree
SubsetInit ==
    /\ live = "subset"
    /\ \E min_size \in 0 .. RangeLen :
         \E count \in min_size .. RangeLen :
           \E js \in [1 .. count -> 0 .. (RangeLen - 1)] :
              /\ \A i \in 1 .. count : js[i] >= i - 1
              /\ rs = RangeSubsetNewTree(min_size, count, js)
    /\ flat = NoTree /\ regens = 0 /\ mayReject = FALSE /\ arr = NoTree
    /\ filt = NoTree

\* Filter::new_value returned a tree: its sample satisfies the predicate
FilterInit ==
    /\ live = "filter"
    /\ \E kind \in {"mod", "oneway"} :
        \E v \in 0 .. (FilterEnd - 1) :
         /\ FilterPred(kind, v)
         /\ filt = FilterValueTree_new(kind, v)
    /\ flat = NoTree /\ regens = 0 /\ mayReject = FALSE /\ arr = NoTree
    /\ rs = NoTree

\* Union::new_tree
UnionInit ==
    /\ live = "union"
    /\ \E pick \in 0 .. (UnionLen - 1) :
         \E vs \in [1 .. UnionLen -> 0 .. (UnionEnd - 1)] :
            un = UnionNewTree(pick, vs)
    /\ flat = NoTree /\ regens = 0 /\ mayReject = FALSE /\ arr = NoTree
    /\ rs = NoTree /\ filt = NoTree

TreesInit ==
    /\ \/ (FlatInit \/ ArrayInit \/ SubsetInit \/ FilterInit) /\ un = NoTree
       \/ UnionInit
    /\ fh = NoCall
    /\ config = DefaultConfig
    /\ IdleShrink
    /\ IdleRun
    /\ IdleLazy
    /\ IdleAux

\* one simplify() call on the Flatten tree
FlatSimplifyCall ==
    /\ live = "flatten"
    /\ \E d \in SimplifyDraws(flat, mayReject) :
         LET r == FlattenSimplify(flat, config, d)
         IN /\ flat' = r.t
            /\ fh' = Called("simplify", r.ret, r.drew, 0, FlattenCurrent(flat))
    /\ UNCHANGED <<regens, mayReject, arr, rs, filt, live>>
    /\ UNCHANGED <<config, shrinkVars, runVars, un, lazyVars, auxVars>>

\* one complicate() call on the Flatten tree
FlatComplicateCall ==
    /\ live = "flatten"
    /\ \E d1 \in RegenDraws(flat, config, regens, mayReject) :
        \E d2 \in ComplicateDraws(flat, config, regens, d1, mayReject) :
         LET r == FlattenComplicate(flat, config, regens, d1, d2)
         IN /\ flat' = r.t
            /\ regens' = r.regens
            /\ fh' = Called("complicate", r.ret, r.drew, r.budgeted,
                            FlattenCurrent(flat))
    /\ UNCHANGED <<mayReject, arr, rs, filt, live>>
    /\ UNCHANGED <<config, shrinkVars, runVars, un, lazyVars, auxVars>>

\* one simplify() call on the array tree
ArraySimplifyCall ==
    /\ live = "array"
    /\ LET r == ArraySimplify(arr)
       IN /\ arr' = r.t
          /\ fh' = Called("simplify", r.ret, 0, 0, ArrayCurrent(arr))
    /\ UNCHANGED <<flat, regens, mayReject, rs, filt, live>>
    /\ UNCHANGED <<config, shrinkVars, runVars, un, lazyVars, auxVars>>

\* one complicate() call on the array tree
ArrayComplicateCall ==
    /\ live = "array"
    /\ LET r == ArrayComplicate(arr)
       IN /\ arr' = r.t
          /\ fh' = Called("complicate", r.ret, 0, 0, ArrayCurrent(arr))
    /\ UNCHANGED <<flat, regens, mayReject, rs, filt, live>>
    /\ UNCHANGED <<config, shrinkVars, runVars, un, lazyVars, auxVars>>

\* one simplify() call on the range-subset tree
SubsetSimplifyCall ==
    /\ live = "subset"
    /\ LET r == SubsetSimplify(rs)
       IN /\ rs' = r.t
          /\ fh' = Called("simplify", r.ret, 0, 0, SubsetCurrent(rs))
    /\ UNCHANGED <<flat, regens, mayReject, arr, filt, live>>
    /\ UNCHANGED <<config, shrinkVars, runVars, un, lazyVars, auxVars>>

\* one complicate() call on the range-subset tree
SubsetComplicateCall ==
    /\ live = "subset"
    /\ LET r == SubsetComplicate(rs)
       IN /\ rs' = r.t
          /\ fh' = Called("complicate", r.ret, 0, 0, SubsetCurrent(rs))
    /\ UNCHANGED <<flat, regens, mayReject, arr, filt, live>>
    /\ UNCHANGED <<config, shrinkVars, runVars, un, lazyVars, auxVars>>

\* one simplify() call on the Filter tree (a panicked tree takes no calls)
FilterSimplifyCall ==
    /\ live = "filter" /\ ~filt.panicked
    /\ LET r == FilterSimplify(filt)
       IN /\ filt' = r.t
          /\ fh' = Called("simplify", r.ret, 0, 0, FilterCurrent(filt))
    /\ UNCHANGED <<flat, regens, mayReject, arr, rs, live>>
    /\ UNCHANGED <<config, shrinkVars, runVars, un, lazyVars, auxVars>>

\* one complicate() call on the Filter tree
FilterComplicateCall ==
    /\ live = "filter" /\ ~filt.panicked
    /\ LET r == FilterComplicate(filt)
       IN /\ filt' = r.t
          /\ fh' = Called("complicate", r.ret, 0, 0, FilterCurrent(filt))
    /\ UNCHANGED <<flat, regens, mayReject, arr, rs, live>>
    /\ UNCHANGED <<config, shrinkVars, runVars, un, lazyVars, auxVars>>

\* one simplify() call on the Union tree; the history keeps the branch index
\* before the call
UnionSimplifyCall ==
    /\ live = "union"
    /\ LET r == UnionSimplify(un)
       IN /\ un' = r.t
          /\ fh' = Called("simplify", r.ret, 0, 0, un.pick)
    /\ UNCHANGED <<flat, regens, mayReject, arr, rs, filt, live>>
    /\ UNCHANGED <<config, shrinkVars, runVars, lazyVars, auxVars>>

\* one complicate() call on the Union tree
UnionComplicateCall ==
    /\ live = "union"
    /\ LET r == UnionComplicate(un)
       IN /\ un' = r.t
          /\ fh' = Called("complicate", r.ret, 0, 0, un.pick)
    /\ UNCHANGED <<flat, regens, mayReject, arr, rs, filt, live>>
    /\ UNCHANGED <<config, shrinkVars, runVars, lazyVars, auxVars>>

TreesNext ==
    \/ UnionSimplifyCall
    \/ UnionComplicateCall
    \/ FilterSimplifyCall
    \/ FilterComplicateCall
    \/ FlatSimplifyCall
    \/ FlatComplicateCall
    \/ ArraySimplifyCall
    \/ ArrayComplicateCall
    \/ SubsetSimplifyCall
    \/ SubsetComplicateCall

SpecTrees == TreesInit /\ [][TreesNext]_vars

\* C3: the Filter predicate holds on current() when the tree is created and
\* after every simplify() or complicate() call that returns
FilterInvariant ==
    (live = "filter" /\ ~filt.panicked) => FilterPred(filt.pred, FilterCurrent(filt))

\* C3 witness: a simplify() that moved the value returned with the predicate
\* restored
FilterSimplified ==
    /\ live = "filter" /\ ~filt.panicked
    /\ fh.op = "simplify" /\ fh.ret
    /\ FilterCurrent(filt) # fh.before
    /\ FilterCurrent(filt) > 0

\* C18: a Filter tree has panicked only where the source's complicate()
\* returned false while the predicate was false, and a call that came back
\* without a panic left a current() that satisfies the predicate
FilterPanicsWhenExhausted ==
    live = "filter" =>
        /\ filt.panicked =>
              /\ ~FilterPred(filt.pred, FilterCurrent(filt))
              /\ ~SourceComplicate(filt).ret
        /\ ~filt.panicked => FilterPred(filt.pred, FilterCurrent(filt))

\* C18 witness: a simplify() call panicked over a source that could not be
\* complicated back to an acceptable value
FilterPanicked ==
    /\ live = "filter" /\ filt.panicked
    /\ fh.op = "simplify"
    /\ ~FilterPred(filt.pred, FilterCurrent(filt))

\* C12: no simplify() call on a Union tree increases the active branch index
UnionBranchMonotone ==
    (live = "union" /\ fh.op = "simplify") => un.pick <= fh.before

\* C12 witness: a simplify() that switched from the highest branch to the
\* middle one
UnionSwitchedDown ==
    /\ live = "union" /\ fh.op = "simplify" /\ fh.ret
    /\ fh.before = UnionLen - 1
    /\ un.pick < fh.before

\* C8: for a Flatten tree, once complicate() has returned false every later
\* complicate() returns false until a simplify() returns true
FlattenComplicateTerminal ==
    (live = "flatten" /\ fh.op = "complicate" /\ fh.exhaustedBefore) => ~fh.ret

\* C9: for an Array or RangeSubset tree, once complicate() has returned false
\* every later complicate() returns false until a simplify() returns true
ProductComplicateTerminal ==
    (live \in {"array", "subset"} /\ fh.op = "complicate"
        /\ fh.exhaustedBefore) => ~fh.ret

\* C9 witness: a complicate() call on an array that has shrunk past its first
\* slot, made after an earlier complicate() had returned false
ArrayExhaustedThenCalled ==
    /\ live = "array" /\ fh.op = "complicate" /\ fh.exhaustedBefore
    /\ arr.shrinker > 0

\* C10: the number of inner trees regenerated by all Flatten trees never
\* exceeds max_flat_map_regens
RegensWithinBudget == fh.drawn <= config.max_flat_map_regens

(* ---------------------------------------------------------------------- *)
(* array::test::shrinks_fully_ltr: an array tree over [0..32, 0..32] that  *)
(* fails a[0] * a[1] <= 9 is driven by complicate() while current()        *)
(* passes and simplify() while it fails, until a call returns false        *)
(* ---------------------------------------------------------------------- *)

\* let input = [0..32, 0..32]
SlotEnd == 32

\* a[0] * a[1] <= 9
PassMax == 9

\* fn pass
pass(a) == a[1] * a[2] <= PassMax

\* a failing case: input.new_tree(&mut runner), skipped while it passes
ArrayLoopInit ==
    /\ live = "loop"
    /\ \E vs \in [1 .. ArrayLen -> 0 .. (SlotEnd - 1)] :
         /\ ~pass(vs)
         /\ arr = ArrayNewTree(vs)
    /\ flat = NoTree /\ regens = 0 /\ mayReject = FALSE /\ rs = NoTree
    /\ filt = NoTree /\ un = NoTree
    /\ fh = NoCall
    /\ config = DefaultConfig
    /\ IdleShrink
    /\ IdleRun
    /\ IdleLazy
    /\ IdleAux

\* one turn of the loop, taken until a call has returned false
ArrayLoopStep ==
    /\ live = "loop" /\ fh.ret
    /\ LET r == IF pass(ArrayCurrent(arr))
                THEN ArrayComplicate(arr) ELSE ArraySimplify(arr)
       IN /\ arr' = r.t
          /\ fh' = Called(IF pass(ArrayCurrent(arr))
                          THEN "complicate" ELSE "simplify",
                          r.ret, 0, 0, ArrayCurrent(arr))
    /\ UNCHANGED <<flat, regens, mayReject, rs, filt, live, un>>
    /\ UNCHANGED <<config, shrinkVars, runVars, lazyVars, auxVars>>

SpecArrayLoop == ArrayLoopInit /\ [][ArrayLoopStep]_vars

\* C20: when the loop has ended, the value fails and lowering either of the
\* two coordinates by one gives a value that passes
ShrinksFullyLtr ==
    (live = "loop" /\ ~fh.ret) =>
        LET last == ArrayCurrent(arr)
        IN /\ ~pass(last)
           /\ pass([last EXCEPT ![1] = @ - 1])
           /\ pass([last EXCEPT ![2] = @ - 1])

\* C20 witness: the loop ended after shrinking every slot, with both
\* coordinates above one
ArrayLoopEnded ==
    /\ live = "loop" /\ ~fh.ret
    /\ arr.shrinker = ArrayLen
    /\ ArrayCurrent(arr)[1] > 1 /\ ArrayCurrent(arr)[2] > 1

(* ---------------------------------------------------------------------- *)
(* TestRunner::run_one: run the test on a case and shrink it on failure    *)
(* ---------------------------------------------------------------------- *)

Predicates == {"flat_map", "sum", "odd"}

\* the test functions: TRUE when the test fails on value v = <<a, b>>
TestFails(p, v) ==
    CASE p = "flat_map" -> v[1] > Thresh /\ v[2] > v[1]
      [] p = "sum"      -> v[1] + v[2] >= Thresh + 1
      [] p = "odd"      -> v[2] % 2 = 1
      [] OTHER          -> FALSE

\* history: complicate() moved the outer tree off a value above Thresh, for
\* which every inner tree drawn had passed the flat-map test
LeavesOuter(ft, ft2) ==
    ft.meta.inner.curr > Thresh /\ ft2.meta.inner.curr # ft.meta.inner.curr

ShrinkInit ==
    /\ FlatInit
    /\ fh = NoCall
    /\ pred \in Predicates
    /\ \E m \in (0 .. MaxShrinkIters) \cup {U32Max - 1, U32Max} :
         \E g \in {MaxFlatMapRegens, AmpleRegens} :
            config = [DefaultConfig EXCEPT !.max_shrink_iters = m,
                                           !.max_flat_map_regens = g]
    /\ IdleRun
    /\ IdleLazy
    /\ IdleAux
    /\ un = NoTree
    /\ run = [pc |-> "test", iterations |-> 0, result |-> "none",
              reported |-> <<0, 0>>, lastFail |-> None,
              first |-> FlattenCurrent(flat), gaveUp |-> FALSE,
              stepped |-> FALSE]

\* call the test on the freshly drawn case
RunCase ==
    /\ run.pc = "test"
    /\ IF TestFails(pred, FlattenCurrent(flat))
       THEN run' = [run EXCEPT !.pc = "simplify",
                               !.lastFail = Some(FlattenCurrent(flat))]
       ELSE run' = [run EXCEPT !.pc = "done", !.result = "Ok"]
    /\ UNCHANGED <<pred, config, treeVars, runVars, lazyVars, auxVars>>

\* shrink: the current value fails; stop at the iteration limit, else
\* simplify() once
ShrinkSimplify ==
    /\ run.pc = "simplify"
    /\ IF run.iterations >= max_shrink_iters(config)
       THEN /\ run' = [run EXCEPT !.pc = "done", !.result = "Fail",
                                  !.reported = FlattenCurrent(flat)]
            /\ UNCHANGED flat
       ELSE \E d \in SimplifyDraws(flat, mayReject) :
              LET r == FlattenSimplify(flat, config, d)
              IN /\ flat' = r.t
                 /\ run' = IF r.ret
                           THEN [run EXCEPT !.pc = "probe",
                                            !.iterations = @ + 1]
                           ELSE [run EXCEPT !.pc = "done",
                                            !.iterations = @ + 1,
                                            !.result = "Fail",
                                            !.reported = FlattenCurrent(r.t)]
    /\ UNCHANGED <<regens, fh, mayReject, arr, rs, filt, live>>
    /\ UNCHANGED <<pred, config, runVars, un, lazyVars, auxVars>>

\* shrink: re-run the test on the candidate; keep it if it still fails,
\* complicate() if it passes
ShrinkProbe ==
    /\ run.pc = "probe"
    /\ IF TestFails(pred, FlattenCurrent(flat))
       THEN /\ run' = [run EXCEPT !.pc = "simplify",
                                  !.lastFail = Some(FlattenCurrent(flat))]
            /\ UNCHANGED <<flat, regens>>
       ELSE \E d1 \in RegenDraws(flat, config, regens, mayReject) :
             \E d2 \in ComplicateDraws(flat, config, regens, d1, mayReject) :
              LET r == FlattenComplicate(flat, config, regens, d1, d2)
              IN /\ flat' = r.t
                 /\ regens' = r.regens
                 /\ run' = IF r.ret
                           THEN [run EXCEPT !.gaveUp = @ \/ LeavesOuter(flat, r.t),
                                            !.stepped = TRUE]
                           ELSE [run EXCEPT !.pc = "done",
                                            !.result = "Fail",
                                            !.reported = FlattenCurrent(r.t)]
    /\ UNCHANGED <<fh, mayReject, arr, rs, filt, live>>
    /\ UNCHANGED <<pred, config, runVars, un, lazyVars, auxVars>>

ShrinkNext == RunCase \/ ShrinkSimplify \/ ShrinkProbe

SpecShrink == ShrinkInit /\ [][ShrinkNext]_vars

\* C1: a reported failing value is one the test was executed on and failed:
\* it is the last candidate the test failed on, never one the test passed on
ShrinkSound ==
    (run.pc = "done" /\ run.result = "Fail") =>
        /\ TestFails(pred, run.reported)
        /\ run.lastFail = Some(run.reported)

\* C1 witness: a failure reported after a candidate had passed the test and
\* complicate() had stepped back from it
ShrunkAfterPassingProbe ==
    /\ run.pc = "done" /\ run.result = "Fail"
    /\ run.stepped
    /\ run.reported # run.first

\* C2: shrinking makes at most max_shrink_iters() calls to simplify(), that
\* is the configured limit, or four times Config.cases when the limit is left
\* at u32::MAX; a run that found a failure ends in Fail with a failing value
\* however the shrinking stopped
ShrinkBounded ==
    run.pc # "idle" =>
        /\ run.iterations <= max_shrink_iters(config)
        /\ run.iterations <= (IF config.max_shrink_iters = U32Max
                              THEN 4 * config.cases
                              ELSE config.max_shrink_iters)
        /\ (run.pc = "done" /\ IsSome(run.lastFail)) =>
              /\ run.result = "Fail"
              /\ TestFails(pred, run.reported)

\* C2 witness: shrinking stopped by the limit while the tree could still be
\* simplified
ShrinkStoppedAtLimit ==
    /\ run.pc = "done" /\ run.result = "Fail"
    /\ config.max_shrink_iters = MaxShrinkIters
    /\ run.iterations = max_shrink_iters(config)
    /\ \E d \in SimplifyDraws(flat, FALSE) :
          FlattenSimplify(flat, config, d).ret

Seeds == 0 .. (RunEnd - 1)

\* errors::TestCaseOk
TestCaseOk == {"NewCaseSuccess", "PersistedCaseSuccess",
               "ReplayFromForkSuccess", "CacheHitSuccess", "Reject"}

\* the legacy persistence entries that can be stored for the source key
LegacyEntries == [seed : Seeds, edge_bias : {0}]

\* mutant of load_persisted_failures2: the converted list is reversed
load_persisted_failures2_reversed(legacy) ==
    [i \in 1 .. Len(legacy) |->
        [alg |-> "XorShift", seed |-> legacy[Len(legacy) + 1 - i].seed,
         edge_bias |-> legacy[Len(legacy) + 1 - i].edge_bias]]

\* FailurePersistence::load_persisted_failures2 (default implementation):
\* the legacy entries, each converted to an XorShift seed
load_persisted_failures2(legacy) ==
    [i \in 1 .. Len(legacy) |->
        [alg |-> "XorShift", seed |-> legacy[i].seed,
         edge_bias |-> legacy[i].edge_bias]]

\* test_runner::RngAlgorithm: the algorithms a seed can belong to
RngAlgorithms == {"XorShift", "ChaCha"}

\* mutant of save_persisted_failure: the seed is appended even when it is
\* already stored
save_persisted_failure_append(st, seed, edge_bias) ==
    Append(st, [seed |-> seed, edge_bias |-> edge_bias])

\* FailurePersistence::save_persisted_failure of the backend: a seed already
\* stored for the source key adds no entry
save_persisted_failure(st, seed, edge_bias) ==
    IF \E i \in 1 .. Len(st) : st[i].seed = seed
    THEN st
    ELSE Append(st, [seed |-> seed, edge_bias |-> edge_bias])

\* FailurePersistence::save_persisted_failure2 (default implementation):
\* delegates to save_persisted_failure if the seed is an XorShift seed
save_persisted_failure2(st, pseed) ==
    IF pseed.alg = "XorShift"
    THEN save_persisted_failure(st, pseed.seed, pseed.edge_bias)
    ELSE st

\* mutant of TestError: every result carries the value
Reported_always(result, value) == Some(value)

\* errors::TestError: Fail(Reason, T) carries the failing value, Abort(Reason)
\* carries none
Reported(result, value) ==
    IF result = "Fail" THEN Some(value) ELSE None

\* mutant of the cache key: values are rendered by their residue
Render_residue(v) == <<v % FilterMod>>

RECURSIVE Render(_)
\* the rendering of a value that keys the result cache: its decimal digits
Render(v) ==
    IF v < 10 THEN <<v>> ELSE Append(Render(v \div 10), v % 10)

\* TestRunner::reject_local
reject_local(n, cfg) ==
    IF n >= cfg.max_local_rejects
    THEN [ok |-> FALSE, n |-> n]
    ELSE [ok |-> TRUE, n |-> n + 1]

\* TestRunner::reject_global
reject_global(n, cfg) ==
    IF n >= cfg.max_global_rejects
    THEN [ok |-> FALSE, n |-> n]
    ELSE [ok |-> TRUE, n |-> n + 1]

\* mutant of Filter::new_value: a rejected draw is charged twice
FilterNewValueIter_doubleCharge(kind, v, n, cfg) ==
    IF ~FilterPred(kind, v)
    THEN LET r == reject_local(n, cfg)
         IN IF r.ok
            THEN [status |-> "retry", local_rejects |-> r.n + 1, calls |-> 1]
            ELSE [status |-> "err", local_rejects |-> r.n, calls |-> 1]
    ELSE [status |-> "tree", local_rejects |-> n, calls |-> 0]

\* mutant of Filter::new_value: a rejected draw is retried without a call of
\* reject_local
FilterNewValueIter_noCharge(kind, v, n, cfg) ==
    IF ~FilterPred(kind, v)
    THEN [status |-> "retry", local_rejects |-> n, calls |-> 0]
    ELSE [status |-> "tree", local_rejects |-> n, calls |-> 0]

\* one iteration of the loop of Filter::new_value on the sample v, with n
\* local rejects charged so far; calls counts its reject_local calls
FilterNewValueIter(kind, v, n, cfg) ==
    IF ~FilterPred(kind, v)
    THEN LET r == reject_local(n, cfg)
         IN IF r.ok
            THEN [status |-> "retry", local_rejects |-> r.n, calls |-> 1]
            ELSE [status |-> "err", local_rejects |-> r.n, calls |-> 1]
    ELSE [status |-> "tree", local_rejects |-> n, calls |-> 0]

\* the values the filtered strategy of a run can yield
RunValues == {v \in 0 .. (RunEnd - 1) : FilterPred("mod", v)}

\* mutant of CountsAgainstCases: every kind of pass counts
CountsAgainstCases_anyPass(ok) == ok # "Reject"

\* only new cases count against Config.cases
CountsAgainstCases(ok) == ok = "NewCaseSuccess"

\* call_test: the classification of one execution.  cached is the cached
\* outcome (None when there is none), forked the outcome replayed from a fork
\* (None when there is none), outcome what the test does on the value
call_test(cached, forked, outcome, is_from_persisted_seed) ==
    IF IsSome(cached)
    THEN (IF Unwrap(cached) = "pass" THEN "CacheHitSuccess" ELSE Unwrap(cached))
    ELSE IF IsSome(forked)
    THEN (IF Unwrap(forked) = "pass" THEN "ReplayFromForkSuccess"
          ELSE Unwrap(forked))
    ELSE IF outcome = "pass"
    THEN (IF is_from_persisted_seed THEN "PersistedCaseSuccess"
          ELSE "NewCaseSuccess")
    ELSE outcome

\* the renderings that can key the result cache of a run
RenderedValues == {Render(v) : v \in RunValues}

\* one classification of the value v through the result cache: the stored
\* classification of the same rendering is reused, else the test is executed
\* and, when a cache is configured, its outcome stored
cached_call(cache, caching, test, v) ==
    IF IsSome(cache[Render(v)])
    THEN [outcome |-> Unwrap(cache[Render(v)]), executed |-> FALSE,
          cache |-> cache]
    ELSE [outcome |-> test[v], executed |-> TRUE,
          cache |-> IF caching
                    THEN [cache EXCEPT ![Render(v)] = Some(test[v])]
                    ELSE cache]

RECURSIVE RunShrink(_, _, _)
RECURSIVE RunProbe(_, _, _)
\* the shrink loop after a simplify() or complicate() that returned true:
\* classify current() through the cache; a failure is kept and simplified
\* further, anything else is stepped back with complicate()
RunProbe(s, test, caching) ==
    LET v == FilterCurrent(s.t)
        c == cached_call(s.cache, caching, test, v)
        s1 == [s EXCEPT !.cache = c.cache,
                        !.hits = IF c.executed THEN @ ELSE @ + 1,
                        !.seen = IF caching /\ c.executed
                                 THEN @ \cup {v} ELSE @,
                        !.reexec = @ \/ (c.executed /\ v \in s.seen),
                        !.stale = @ \/ (c.outcome # test[v])]
    IN IF c.outcome = "fail"
       THEN RunShrink([s1 EXCEPT !.last = v], test, caching)
       ELSE LET r == FilterComplicate(s1.t)
            IN IF r.ret
               THEN RunProbe([s1 EXCEPT !.t = r.t, !.calls = @ + 1],
                             test, caching)
               ELSE [s1 EXCEPT !.t = r.t, !.calls = @ + 1]

\* the shrink loop of a failing case: simplify() until it returns false
RunShrink(s, test, caching) ==
    LET r == FilterSimplify(s.t)
    IN IF r.ret
       THEN RunProbe([s EXCEPT !.t = r.t, !.calls = @ + 1], test, caching)
       ELSE [s EXCEPT !.t = r.t, !.calls = @ + 1]

\* the state in which the shrink loop starts on the failing value v
ShrinkStart(kind, v, cache, seen) ==
    [t |-> FilterValueTree_new(kind, v), cache |-> cache, seen |-> seen,
     calls |-> 0, hits |-> 0, last |-> v, reexec |-> FALSE,
     stale |-> FALSE]

\* the backend never stores a seed twice
NoDuplicates(st) ==
    \A i, j \in 1 .. Len(st) : st[i].seed = st[j].seed => i = j

RunInit ==
    /\ \E n \in 0 .. MaxStored : store \in [1 .. n -> LegacyEntries]
    /\ NoDuplicates(store)
    /\ \E fk \in FilterKinds \cup {"nested"} :
        \E tm \in [RunValues -> {"pass", "reject", "fail"}] :
         \E co \in BOOLEAN :
          \E fo \in {<<>>, <<"pass">>, <<"reject">>} :
          \E ra \in RngAlgorithms :
           \* the failing source is run without a result cache or a fork
           /\ fk = "nested" => (~co /\ fo = <<>>)
           /\ rn = [pc |-> "next", fkind |-> fk, test |-> tm, caching |-> co,
                    fork |-> fo, cache |-> [k \in RenderedValues |-> None],
                    rng_algorithm |-> ra, seed_alg |-> ra,
                    seen |-> {}, reexec |-> FALSE, stale |-> FALSE,
                    failing |-> None, shrink_calls |-> 0, shrink_hits |-> 0,
                    charges |-> 0, inner_err |-> FALSE,
                    writes |-> 0,
                    queue |-> load_persisted_failures2(store),
                    loaded |-> load_persisted_failures2(store),
                    replayed |-> <<>>, fresh |-> 0, successes |-> 0,
                    local_rejects |-> 0, global_rejects |-> 0, retried |-> 0,
                    rejected |-> 0,
                    seed |-> 0, persisted |-> FALSE, first |-> TRUE,
                    value |-> 0, last |-> "none", counted |-> 0,
                    result |-> "none"]
    /\ config = DefaultConfig
    /\ flat = NoTree /\ regens = 0 /\ mayReject = FALSE /\ arr = NoTree
    /\ rs = NoTree /\ filt = NoTree /\ live = "none" /\ fh = NoCall
    /\ un = NoTree
    /\ IdleShrink
    /\ IdleLazy
    /\ IdleAux

\* GenerateCase: take the next persisted seed, else a fresh seed while fewer
\* than Config.cases cases have passed, else report success
RunGenerate ==
    /\ rn.pc = "next"
    /\ IF rn.queue # <<>>
       THEN rn' = [rn EXCEPT !.pc = "gen", !.seed = Head(rn.queue).seed,
                             !.seed_alg = Head(rn.queue).alg,
                             !.persisted = TRUE, !.first = TRUE,
                             !.replayed = Append(@, Head(rn.queue)),
                             !.queue = Tail(@)]
       ELSE IF rn.successes < config.cases
       THEN /\ rn.fresh < MaxFresh
            /\ \E sd \in Seeds :
                 rn' = [rn EXCEPT !.pc = "gen", !.seed = sd,
                                  !.seed_alg = rn.rng_algorithm,
                                  !.persisted = FALSE, !.first = TRUE,
                                  !.fresh = @ + 1]
       ELSE rn' = [rn EXCEPT !.pc = "done", !.result = "Ok"]
    /\ UNCHANGED <<store, config, treeVars, shrinkVars, lazyVars, auxVars>>

\* one iteration of the loop of Filter::new_value: the source's new_value
\* returns an error, which ends the call, or a sample (the first draw of a
\* case is fixed by its seed, later draws are any value of the range)
RunDraw ==
    /\ rn.pc = "gen"
    /\ \/ /\ rn.fkind = "nested"
          /\ rn' = [rn EXCEPT !.pc = "done", !.result = "Abort",
                              !.failing = Reported("Abort", rn.value),
                              !.inner_err = TRUE]
       \/ \E v \in (IF rn.first THEN {rn.seed} ELSE 0 .. (RunEnd - 1)) :
            LET r == FilterNewValueIter(rn.fkind, v, rn.local_rejects, config)
            IN rn' = CASE r.status = "tree" ->
                            [rn EXCEPT !.pc = "call", !.value = v]
                       [] r.status = "retry" ->
                            [rn EXCEPT !.first = FALSE,
                                       !.local_rejects = r.local_rejects,
                                       !.charges = @ + r.calls,
                                       !.rejected = @ + 1,
                                       !.retried = @ + 1]
                       [] OTHER ->
                            [rn EXCEPT !.pc = "done", !.result = "Abort",
                                       !.failing = Reported("Abort", v),
                                       !.charges = @ + r.calls,
                                       !.rejected = @ + 1,
                                       !.local_rejects = r.local_rejects]
    /\ UNCHANGED <<store, config, treeVars, shrinkVars, lazyVars, auxVars>>

\* RunCase: classify the case; a pass is counted if it is a new case, a
\* reject is charged to the global budget, a failure is shrunk, handed to
\* the persistence backend, and reported
RunCall ==
    /\ rn.pc = "call"
    /\ LET cached == rn.cache[Render(rn.value)]
           forked == IF rn.fork = <<>> THEN None ELSE Some(Head(rn.fork))
           res == call_test(cached, forked, rn.test[rn.value], rn.persisted)
           executed == ~IsSome(cached) /\ ~IsSome(forked)
           rn1 == [rn EXCEPT
                     !.last = res,
                     !.fork = IF IsSome(cached) \/ rn.fork = <<>>
                              THEN @ ELSE Tail(@),
                     !.cache = IF executed /\ rn.caching
                               THEN [@ EXCEPT ![Render(rn.value)] =
                                        Some(rn.test[rn.value])]
                               ELSE @,
                     !.seen = IF executed /\ rn.caching
                              THEN @ \cup {rn.value} ELSE @,
                     !.reexec = @ \/ (executed /\ rn.value \in rn.seen),
                     !.stale = @ \/ (IsSome(cached) /\
                                     Unwrap(cached) # rn.test[rn.value])]
       IN IF res \in TestCaseOk \ {"Reject"}
          THEN /\ rn' = [rn1 EXCEPT !.pc = "next",
                            !.successes = IF CountsAgainstCases(res)
                                          THEN @ + 1 ELSE @,
                            !.counted = IF res = "NewCaseSuccess"
                                        THEN @ + 1 ELSE @]
               /\ store' = store
          ELSE IF res = "reject"
          THEN LET g == reject_global(rn.global_rejects, config)
               IN /\ rn' = IF g.ok
                           THEN [rn1 EXCEPT !.pc = "next", !.last = "Reject",
                                            !.global_rejects = g.n]
                           ELSE [rn1 EXCEPT !.pc = "done",
                                            !.result = "Abort",
                                            !.failing =
                                               Reported("Abort", rn.value)]
                  /\ store' = store
          ELSE LET sh == RunShrink(ShrinkStart(rn.fkind, rn.value,
                                               rn1.cache, rn1.seen),
                                   rn.test, rn.caching)
               IN /\ rn' = [rn1 EXCEPT !.pc = "done", !.result = "Fail",
                                       !.failing = Reported("Fail", sh.last),
                                       !.shrink_calls = sh.calls,
                                       !.shrink_hits = sh.hits,
                                       !.cache = sh.cache,
                                       !.seen = sh.seen,
                                       !.reexec = @ \/ sh.reexec,
                                       !.stale = @ \/ sh.stale,
                                       !.writes = @ + 1]
                  /\ store' = save_persisted_failure2(store,
                                  [alg |-> rn.seed_alg, seed |-> rn.seed,
                                   edge_bias |-> 0])
    /\ UNCHANGED <<config, treeVars, shrinkVars, lazyVars, auxVars>>

RunLoopNext == RunGenerate \/ RunDraw \/ RunCall

SpecRun == RunInit /\ [][RunLoopNext]_vars

\* the sequence s is a prefix of the sequence t
IsPrefix(s, t) ==
    /\ Len(s) <= Len(t)
    /\ \A i \in 1 .. Len(s) : s[i] = t[i]

\* C4: the persisted seeds are replayed in stored order, all of them before
\* any fresh case is drawn
ReplayBeforeFresh ==
    rn.pc # "idle" =>
        /\ IsPrefix([i \in 1 .. Len(rn.replayed) |-> rn.replayed[i].seed],
                    [i \in 1 .. Len(store) |-> store[i].seed])
        /\ rn.fresh > 0 =>
              /\ rn.queue = <<>>
              /\ Len(rn.replayed) = Len(rn.loaded)

\* C5: the successful-case counter counts exactly the passes of new cases,
\* and the run reports success exactly when it reaches Config.cases
SuccessesCountNewCases ==
    rn.pc # "idle" =>
        /\ rn.successes = rn.counted
        /\ rn.successes <= config.cases
        /\ (rn.result = "Ok") <=> (rn.pc = "done" /\ rn.successes = config.cases)

\* C6 (as claimed): when the filter rejects every draw, the run ends in Abort
\* and the number of draws rejected by then equals max_local_rejects
AbortAfterMaxLocalRejects ==
    (rn.pc = "done" /\ rn.fkind = "never") =>
        /\ rn.result = "Abort"
        /\ rn.rejected = config.max_local_rejects

\* C6 (amended): when the filter rejects every draw, the run ends in Abort,
\* never in success or failure; max_local_rejects rejected draws are charged
\* and retried, and the Abort comes on the next rejected draw, which is the
\* (max_local_rejects + 1)-th
AlwaysRejectAborts ==
    (rn.pc = "done" /\ rn.fkind = "never") =>
        /\ rn.result = "Abort"
        /\ rn.local_rejects = config.max_local_rejects
        /\ rn.retried = config.max_local_rejects
        /\ rn.rejected = config.max_local_rejects + 1

\* C6 witness: a run over the always-rejecting filter aborted on its
\* (max_local_rejects + 1)-th rejected draw, with no global reject charged
AlwaysRejectAborted ==
    /\ rn.pc = "done" /\ rn.fkind = "never" /\ rn.result = "Abort"
    /\ rn.rejected = config.max_local_rejects + 1
    /\ rn.global_rejects = 0

\* the seeds of a list of persistence entries, in order
SeedsOf(st) == [i \in 1 .. Len(st) |-> st[i].seed]

\* C13: a run that ended in Abort holds no failing value, made no simplify()
\* or complicate() call and wrote nothing to the persistence backend; and
\* once Abort or Fail is returned no further case is drawn, run or shrunk
AbortImmediateAndTerminal ==
    /\ [](rn.result = "Abort" =>
            /\ rn.failing = None
            /\ rn.shrink_calls = 0
            /\ rn.writes = 0
            /\ SeedsOf(store) = SeedsOf(rn.loaded))
    /\ [][rn.result \in {"Abort", "Fail"} => (rn' = rn /\ store' = store)]_vars

\* C13 witness: a run that replayed a stored seed and then aborted when the
\* global reject budget ran out
AbortedOnGlobalRejects ==
    /\ rn.pc = "done" /\ rn.result = "Abort"
    /\ rn.last = "reject"
    /\ rn.global_rejects = config.max_global_rejects
    /\ Len(rn.replayed) > 0

\* C14 (as claimed): when a run returns Fail for a freshly generated case,
\* the seed of that case is among the seeds the persistence backend holds
\* for the source key
FreshFailureSeedStored ==
    (rn.result = "Fail" /\ ~rn.persisted) =>
        \E i \in 1 .. Len(store) :
            load_persisted_failures2(store)[i] =
                [alg |-> rn.seed_alg, seed |-> rn.seed, edge_bias |-> 0]

\* C15: when a stored seed is replayed and its case still fails, the store
\* holds that seed exactly once afterwards
ReplayedFailureStoredOnce ==
    (rn.result = "Fail" /\ rn.persisted) =>
        Cardinality({i \in 1 .. Len(store) : store[i].seed = rn.seed}) = 1

\* C15 witness: the second of two stored seeds was replayed, failed again and
\* was handed to the backend
ReplayedSeedFailedAgain ==
    /\ rn.result = "Fail" /\ rn.persisted /\ rn.writes = 1
    /\ Len(rn.loaded) = MaxStored
    /\ rn.seed = rn.loaded[MaxStored].seed

\* C16: with a result cache, no value is executed twice, every classification
\* taken from the cache is the one the test gives the value, and a failing
\* run reports the value the shrink loop reaches without a cache
CacheReusesClassification ==
    (rn.pc # "idle" /\ rn.caching) =>
        /\ ~rn.reexec
        /\ ~rn.stale
        /\ rn.result = "Fail" =>
              rn.failing =
                Some(RunShrink(ShrinkStart(rn.fkind, rn.value,
                                           [k \in RenderedValues |-> None],
                                           {}),
                               rn.test, FALSE).last)

\* C16 witness: a failing run with a cache whose shrink loop came back to a
\* value it had classified before and took the classification from the cache
ShrinkHitCache ==
    /\ rn.result = "Fail" /\ rn.caching
    /\ rn.shrink_calls > 1
    /\ rn.shrink_hits > 0

\* C19: Filter::new_value makes one reject_local call for each draw that
\* fails the predicate and retries only a draw that was charged, so at most
\* max_local_rejects + 1 draws fail; an error of the source's draw or an
\* exhausted budget ends the run at once; a returned tree satisfies the
\* predicate
FilterNewValueBounded ==
    rn.pc # "idle" =>
        /\ rn.charges = rn.rejected
        /\ rn.retried = rn.local_rejects
        /\ rn.local_rejects <= config.max_local_rejects
        /\ rn.rejected <= config.max_local_rejects + 1
        /\ rn.pc = "call" => FilterPred(rn.fkind, rn.value)
        /\ (rn.inner_err \/ rn.rejected > config.max_local_rejects) =>
              (rn.pc = "done" /\ rn.result = "Abort")

\* C19 witness: over a source that can fail, a tree was returned on the draw
\* after max_local_rejects failing draws
FilterReturnedAfterRejects ==
    /\ rn.pc = "call" /\ rn.fkind = "nested"
    /\ rn.rejected = config.max_local_rejects
    /\ rn.charges = config.max_local_rejects

\* C4 witness: two different stored seeds were replayed and a fresh case was
\* then drawn
ReplayedThenFresh ==
    /\ rn.pc # "idle" /\ Len(rn.loaded) = MaxStored /\ rn.fresh > 0
    /\ rn.loaded[1].seed # rn.loaded[2].seed
    /\ Len(rn.replayed) = MaxStored

\* C5 witness: a run that replayed persisted seeds and needed more fresh
\* cases than Config.cases reported success
SucceededAfterUncountedPasses ==
    /\ rn.pc = "done" /\ rn.result = "Ok"
    /\ rn.successes = config.cases
    /\ Len(rn.replayed) > 0
    /\ rn.fresh > config.cases

(* ---------------------------------------------------------------------- *)
(* strategy::Lazy over the flat-map strategy, held by two runners built    *)
(* from the same seed.  Both runners make the same new_value, simplify and *)
(* complicate calls; each reads current() whenever it likes.               *)
(* ---------------------------------------------------------------------- *)

\* the generator has RngMod states
RngMod == 8
\* the most lazy trees a runner creates
MaxLazy == 2
\* the most simplify() and complicate() calls the two runners make
MaxLazyCalls == 3

\* the generator steps through all its states in a fixed order
RngNext(s) == (5 * s + 3) % RngMod

\* Rng::gen: the word produced and the generator afterwards
RngGen(s) == [v |-> s, rng |-> RngNext(s)]

\* Rng::gen_range(lo, hi)
RngRange(s, lo, hi) == [v |-> lo + (s % (hi - lo)), rng |-> RngNext(s)]

\* XorShiftRng::from_seed
from_seed(seed) == seed % RngMod

\* TestRunner::partial_clone: the clone's generator is seeded from a word of
\* the parent's
partial_clone(s) ==
    [child |-> from_seed(RngGen(s).v + 1), rng |-> RngGen(s).rng]

\* Flatten::new_tree on a runner whose generator is s: the outer sample, then
\* FlattenValueTree::new, which draws the inner tree and keeps a partial
\* clone of the runner
FlatMapNewTree(s) ==
    LET ra == RngRange(s, 0, MetaEnd)
        rb == RngRange(ra.rng, ra.v - Delta, ra.v + Delta)
        pc == partial_clone(rb.rng)
    IN [flat |-> FlattenValueTree_new(ra.v, rb.v), rng |-> pc.child,
        regens |-> 0]

\* Lazy::new_value on a runner whose generator is s
Lazy_new_value(s) ==
    LET pc == partial_clone(s)
        g  == RngGen(pc.rng)
    IN [t |-> [runner |-> pc.child, seed |-> g.v, value |-> None],
        rng |-> g.rng]

\* LazyValueTree::current: the value is generated on the first call, by a
\* clone of the tree's runner reseeded with the stored seed
LazyCurrent(t) ==
    LET t1 == IF IsSome(t.value) THEN t
              ELSE [t EXCEPT !.value = Some(FlatMapNewTree(from_seed(t.seed)))]
    IN [t |-> t1, v |-> FlattenCurrent(Unwrap(t1.value).flat)]

\* the inner tree's new_tree call on its own runner, for the outer value a
InnerDraw(rng, a) == Some(RngRange(rng, a - Delta, a + Delta).v)

\* LazyValueTree::simplify: the inner value must have been initialised
LazySimplify(t, cfg) ==
    IF ~IsSome(t.value)
    THEN [t |-> t, out |-> "panic"]
    ELSE LET val == Unwrap(t.value)
             d == InnerDraw(val.rng, Fuse_simplify(val.flat.meta).t.inner.curr)
             r == FlattenSimplify(val.flat, cfg, d)
         IN [t |-> [t EXCEPT !.value = Some(
                       [val EXCEPT !.flat = r.t,
                                   !.rng = IF r.drew = 1 THEN RngNext(@) ELSE @])],
             out |-> IF r.ret THEN "true" ELSE "false"]

\* LazyValueTree::complicate
LazyComplicate(t, cfg) ==
    IF ~IsSome(t.value)
    THEN [t |-> t, out |-> "panic"]
    ELSE LET val == Unwrap(t.value)
             d1 == InnerDraw(val.rng, val.flat.meta.inner.curr)
             d2 == InnerDraw(val.rng,
                             Fuse_complicate(val.flat.meta).t.inner.curr)
             r == FlattenComplicate(val.flat, cfg, val.regens, d1, d2)
         IN [t |-> [t EXCEPT !.value = Some(
                       [val EXCEPT !.flat = r.t, !.regens = r.regens,
                                   !.rng = IF r.drew = 1 THEN RngNext(@) ELSE @])],
             out |-> IF r.ret THEN "true" ELSE "false"]

\* a runner built from the seed s, holding no tree
NewRunner(s) == [rng |-> from_seed(s), trees |-> <<>>, seen |-> <<>>]

\* mutant of the runner's current() call: the value is generated from the
\* runner's live generator instead of the stored seed
RunnerCurrent_liveRng(c, i) ==
    LET t == c.trees[i]
        t1 == IF IsSome(t.value) THEN t
              ELSE [t EXCEPT !.value = Some(FlatMapNewTree(c.rng))]
    IN [c EXCEPT !.trees[i] = t1,
                 !.rng = IF IsSome(t.value) THEN @ ELSE RngNext(@),
                 !.seen[i] = Some(FlattenCurrent(Unwrap(t1.value).flat))]

\* the runner c reads current() of its i-th tree
RunnerCurrent(c, i) ==
    LET r == LazyCurrent(c.trees[i])
    IN [c EXCEPT !.trees[i] = r.t, !.seen[i] = Some(r.v)]

LazyInit ==
    /\ \E s \in 0 .. (RngMod - 1) :
         det = [A |-> NewRunner(s), B |-> NewRunner(s),
                out |-> [A |-> "none", B |-> "none"],
                op |-> "new", repeated |-> TRUE, calls |-> 0]
    /\ config = DefaultConfig
    /\ flat = NoTree /\ regens = 0 /\ mayReject = FALSE /\ arr = NoTree
    /\ rs = NoTree /\ filt = NoTree /\ live = "none" /\ fh = NoCall
    /\ un = NoTree
    /\ IdleShrink
    /\ IdleRun
    /\ IdleAux

\* neither runner has panicked
LazyRunning == det.out.A # "panic" /\ det.out.B # "panic"

\* the runners may make another simplify() or complicate() call
LazyMayShrink == LazyRunning /\ det.calls < MaxLazyCalls

\* both runners call new_value on the Lazy strategy
LazyNewValue ==
    /\ LazyRunning
    /\ Len(det.A.trees) < MaxLazy
    /\ LET mk(c) == LET r == Lazy_new_value(c.rng)
                    IN [rng |-> r.rng, trees |-> Append(c.trees, r.t),
                        seen |-> Append(c.seen, None)]
       IN det' = [det EXCEPT !.A = mk(det.A), !.B = mk(det.B), !.op = "new"]
    /\ UNCHANGED <<config, treeVars, shrinkVars, runVars, auxVars>>

\* one runner reads current() of one of its trees; repeated records whether
\* every read repeated with no shrink call in between returned the same value
LazyCurrentCall ==
    /\ LazyRunning
    /\ \E w \in {"A", "B"} :
        \E i \in 1 .. Len(det.A.trees) :
          LET c == det[w]
              c1 == RunnerCurrent(c, i)
          IN det' = [det EXCEPT
                       ![w] = c1,
                       !.op = "current",
                       !.repeated = @ /\ (IsSome(c.seen[i])
                                            => c1.seen[i] = c.seen[i])]
    /\ UNCHANGED <<config, treeVars, shrinkVars, runVars, auxVars>>

\* both runners call simplify() on their i-th tree
LazySimplifyCall ==
    /\ LazyMayShrink
    /\ \E i \in 1 .. Len(det.A.trees) :
         LET ra == LazySimplify(det.A.trees[i], config)
             rb == LazySimplify(det.B.trees[i], config)
         IN det' = [det EXCEPT
                      !.A = [@ EXCEPT !.trees[i] = ra.t, !.seen[i] = None],
                      !.B = [@ EXCEPT !.trees[i] = rb.t, !.seen[i] = None],
                      !.out = [A |-> ra.out, B |-> rb.out],
                      !.op = "simplify", !.calls = @ + 1]
    /\ UNCHANGED <<config, treeVars, shrinkVars, runVars, auxVars>>

\* both runners call complicate() on their i-th tree
LazyComplicateCall ==
    /\ LazyMayShrink
    /\ \E i \in 1 .. Len(det.A.trees) :
         LET ra == LazyComplicate(det.A.trees[i], config)
             rb == LazyComplicate(det.B.trees[i], config)
         IN det' = [det EXCEPT
                      !.A = [@ EXCEPT !.trees[i] = ra.t, !.seen[i] = None],
                      !.B = [@ EXCEPT !.trees[i] = rb.t, !.seen[i] = None],
                      !.out = [A |-> ra.out, B |-> rb.out],
                      !.op = "complicate", !.calls = @ + 1]
    /\ UNCHANGED <<config, treeVars, shrinkVars, runVars, auxVars>>

LazyNext ==
    \/ LazyNewValue
    \/ LazyCurrentCall
    \/ LazySimplifyCall
    \/ LazyComplicateCall

SpecLazy == LazyInit /\ [][LazyNext]_vars

\* C11: two runners built from the same seed and driven through the same
\* new_value, simplify and complicate calls read the same current() value from
\* corresponding trees
Determinism ==
    det # <<>> =>
        \A i \in 1 .. Len(det.A.trees) :
            (IsSome(det.A.seen[i]) /\ IsSome(det.B.seen[i]))
                => det.A.seen[i] = det.B.seen[i]

\* C11 witness: after a simplify() that succeeded in both runners, both have
\* read the value of their second tree, one of them without reading the first
DeterminismObserved ==
    /\ det # <<>> /\ Len(det.A.trees) = MaxLazy
    /\ det.out = [A |-> "true", B |-> "true"]
    /\ IsSome(det.A.seen[2]) /\ IsSome(det.B.seen[2])
    /\ IsSome(det.A.trees[1].value) /\ ~IsSome(det.B.trees[1].value)

\* C17: current() is pure: repeated reads return the same value, and reading
\* has no effect on the outcome of a later simplify() or complicate()
CurrentIsPure ==
    det # <<>> => (det.repeated /\ det.out.A = det.out.B)

(* ---------------------------------------------------------------------- *)
(* test_runner::contextualize_config: the PROPTEST_* environment variables *)
(* are read one at a time and parsed into the fields of a Config.  A value *)
(* is None when it is not valid Unicode, else Some of its characters.      *)
(* ---------------------------------------------------------------------- *)

\* the number of environment variables one call reads
MaxEnv == 2

\* 16-byte seed
XorShiftSeedLen == 16

\* 32-byte seed
ChaChaSeedLen == 32

\* the values a variable can hold
EnvValues ==
    LET hex(n, c) == <<"h", "e", "x", "-">> \o [i \in 1 .. n |-> c]
    IN {None, Some(<<>>), Some(<<"7">>), Some(<<"z">>),
        Some(<<"x", "s">>), Some(<<"c", "c">>), Some(<<"h", "e", "x">>),
        Some(hex(2, "a")),
        Some(hex(2 * XorShiftSeedLen, "a")), Some(hex(2 * XorShiftSeedLen, "z")),
        Some(hex(2 * ChaChaSeedLen, "a")), Some(hex(2 * ChaChaSeedLen + 1, "z"))}

\* the value of a hexadecimal digit
HexVal == [c \in {"0", "1", "7", "a", "c", "e"} |->
              CASE c = "0" -> 0 [] c = "1" -> 1 [] c = "7" -> 7
                [] c = "a" -> 10 [] c = "c" -> 12 [] c = "e" -> 14]

\* from_base16 on a zeroed buffer of n bytes: the buffer is left as it is
\* when the lengths disagree, and is written up to the first pair that is not
\* a hexadecimal byte
from_base16(n, src) ==
    LET ok(i) == src[2 * i - 1] \in DOMAIN HexVal /\ src[2 * i] \in DOMAIN HexVal
        bad == IF n * 2 # Len(src) THEN 1 .. n ELSE {i \in 1 .. n : ~ok(i)}
    IN [dst |-> [i \in 1 .. n |->
                    IF \E j \in bad : j <= i THEN 0
                    ELSE 16 * HexVal[src[2 * i - 1]] + HexVal[src[2 * i]]],
        ret |-> IF bad = {} THEN Some(<<>>) ELSE None]

\* str::parse for the types of the fields: u32 and u64 (decimal digits),
\* RngAlgorithm ("xs", "cc") and RngSeed (RngSeed::from_str: "hex-" and a
\* hex-encoded seed whose decoding result is dropped, else a u64)
parse(typ, s) ==
    LET digits == s # <<>> /\ \A i \in 1 .. Len(s) : s[i] \in {"0", "1", "7"}
        RECURSIVE num(_)
        num(t) == IF t = <<>> THEN 0
                  ELSE 10 * num(SubSeq(t, 1, Len(t) - 1)) + HexVal[t[Len(t)]]
        dashes == {i \in 1 .. Len(s) : s[i] = "-"}
        first == IF dashes = {} THEN s
                 ELSE SubSeq(s, 1, (CHOOSE i \in dashes :
                                       \A j \in dashes : i <= j) - 1)
    IN CASE typ = "RngAlgorithm" ->
               (IF s = <<"x", "s">> THEN Some("XorShift")
                ELSE IF s = <<"c", "c">> THEN Some("ChaCha") ELSE None)
         [] typ = "RngSeed" /\ first = <<"h", "e", "x">> ->
               (IF Cardinality(dashes) # 1 THEN None
                ELSE Some([kind |-> "FullHexEncodedSeed",
                           seed |-> from_base16((Len(s) - 4) \div 2,
                                                SubSeq(s, 5, Len(s))).dst]))
         [] typ = "RngSeed" ->
               (IF digits THEN Some([kind |-> "Fixed", seed |-> num(s)])
                ELSE None)
         [] OTHER -> (IF digits THEN Some(num(s)) ELSE None)

\* parse_or_warn: the new value of dst
parse_or_warn(src, dst, typ) ==
    IF IsSome(src)
    THEN (IF IsSome(parse(typ, Unwrap(src)))
          THEN Unwrap(parse(typ, Unwrap(src)))
          ELSE dst)
    ELSE dst

\* the loop body of contextualize_config for one variable
contextualize_var(result, var, value) ==
    CASE var = "PROPTEST_CASES" ->
            [result EXCEPT !.cases = parse_or_warn(value, @, "u32")]
      [] var = "PROPTEST_RNG_ALGORITHM" ->
            [result EXCEPT
               !.rng_algorithm = parse_or_warn(value, @, "RngAlgorithm")]
      [] var = "PROPTEST_RNG_SEED" ->
            LET existing_seed == result.rng_seed
                parsed == parse_or_warn(value, existing_seed, "RngSeed")
                expected == IF result.rng_algorithm = "XorShift"
                            THEN XorShiftSeedLen ELSE ChaChaSeedLen
            IN IF parsed.kind = "FullHexEncodedSeed"
                  /\ Len(parsed.seed) # expected
               THEN [result EXCEPT !.rng_seed = existing_seed]
               ELSE [result EXCEPT !.rng_seed = parsed]
      [] var = "PROPTEST_DISABLE_FAILURE_PERSISTENCE" ->
            [result EXCEPT !.failure_persistence = None]
      [] OTHER -> result

\* contextualize_config is entered with a Config
ConfigInit ==
    /\ \E ra \in RngAlgorithms :
        \E fp \in {None, Some("file")} :
         LET c == [cases |-> Cases, rng_algorithm |-> ra,
                   rng_seed |-> [kind |-> "Random", seed |-> <<>>],
                   failure_persistence |-> fp]
         IN env = [n |-> 0, var |-> "", value |-> None, before |-> c,
                   result |-> c]
    /\ config = DefaultConfig
    /\ flat = NoTree /\ regens = 0 /\ mayReject = FALSE /\ arr = NoTree
    /\ rs = NoTree /\ filt = NoTree /\ live = "none" /\ fh = NoCall
    /\ un = NoTree
    /\ IdleShrink
    /\ IdleRun
    /\ IdleLazy
    /\ sm = <<>> /\ minimal = <<>> /\ hooks = <<>>

\* one turn of the loop over env::vars_os()
ContextualizeVar ==
    /\ env # <<>> /\ env.n < MaxEnv
    /\ \E var \in {"PROPTEST_CASES", "PROPTEST_RNG_ALGORITHM",
                   "PROPTEST_RNG_SEED",
                   "PROPTEST_DISABLE_FAILURE_PERSISTENCE",
                   "PROPTEST_UNKNOWN"} :
        \E value \in EnvValues :
          env' = [n |-> env.n + 1, var |-> var, value |-> value,
                  before |-> env.result,
                  result |-> contextualize_var(env.result, var, value)]
    /\ UNCHANGED <<config, treeVars, shrinkVars, runVars, lazyVars>>
    /\ UNCHANGED <<sm, minimal, hooks>>

SpecConfig == ConfigInit /\ [][ContextualizeVar]_vars

\* C21 (as claimed): a variable changes a field only if it is the variable of
\* that field and holds a well-formed value of the field's type (decimal
\* digits; "xs" or "cc"; decimal digits or "hex-" and an even number of
\* hexadecimal digits; any Unicode value for the persistence switch)
EnvChangesOnlyOnValidValue ==
    (env # <<>> /\ env.n > 0) =>
        LET s == Unwrap(env.value)
            digits == s # <<>> /\ \A i \in 1 .. Len(s) : s[i] \in {"0", "1", "7"}
            hex == /\ Len(s) > 4 /\ SubSeq(s, 1, 4) = <<"h", "e", "x", "-">>
                   /\ Len(s) % 2 = 0
                   /\ \A i \in 5 .. Len(s) : s[i] \in DOMAIN HexVal
            changed(f) == env.result[f] # env.before[f]
        IN /\ changed("cases") =>
                env.var = "PROPTEST_CASES" /\ IsSome(env.value) /\ digits
           /\ changed("rng_algorithm") =>
                /\ env.var = "PROPTEST_RNG_ALGORITHM" /\ IsSome(env.value)
                /\ s \in {<<"x", "s">>, <<"c", "c">>}
           /\ changed("rng_seed") =>
                /\ env.var = "PROPTEST_RNG_SEED" /\ IsSome(env.value)
                /\ digits \/ hex
           /\ changed("failure_persistence") =>
                /\ env.var = "PROPTEST_DISABLE_FAILURE_PERSISTENCE"
                /\ IsSome(env.value)

(* ---------------------------------------------------------------------- *)
(* Config::max_shrink_iters() at the full width of u32.  A u32 is held as  *)
(* two 16-bit halves, [hi, lo] standing for hi * 65536 + lo.               *)
(* ---------------------------------------------------------------------- *)

\* mutant of u32::saturating_mul(4): the product wraps
saturating_mul4_wrapping(x) ==
    [hi |-> (4 * x.hi + (4 * x.lo) \div 65536) % 65536,
     lo |-> (4 * x.lo) % 65536]

\* u32::saturating_mul(4)
saturating_mul4(x) ==
    IF 4 * x.hi + (4 * x.lo) \div 65536 > 65535
    THEN [hi |-> 65535, lo |-> 65535]
    ELSE [hi |-> 4 * x.hi + (4 * x.lo) \div 65536, lo |-> (4 * x.lo) % 65536]

\* Config::max_shrink_iters() on the halves
max_shrink_iters_u32(cfg) ==
    IF [hi |-> 65535, lo |-> 65535] = cfg.max_shrink_iters
    THEN saturating_mul4(cfg.cases)
    ELSE cfg.max_shrink_iters

\* a Config whose cases and max_shrink_iters are 0, 1, 256, 1024, 2^30 - 1,
\* 2^30, 2^32 - 2 or u32::MAX
ShrinkItersInit ==
    /\ LET samples == {[hi |-> 0, lo |-> 0], [hi |-> 0, lo |-> 1],
                       [hi |-> 0, lo |-> 256], [hi |-> 0, lo |-> 1024],
                       [hi |-> 16383, lo |-> 65535], [hi |-> 16384, lo |-> 0],
                       [hi |-> 65535, lo |-> 65534],
                       [hi |-> 65535, lo |-> 65535]}
       IN \E c \in samples : \E m \in samples :
            config = [cases |-> c, max_shrink_iters |-> m, limit |-> None]
    /\ flat = NoTree /\ regens = 0 /\ mayReject = FALSE /\ arr = NoTree
    /\ rs = NoTree /\ filt = NoTree /\ live = "none" /\ fh = NoCall
    /\ un = NoTree
    /\ IdleShrink
    /\ IdleRun
    /\ IdleLazy
    /\ IdleAux

\* a call of max_shrink_iters(); its answer is kept beside the Config
ShrinkItersCall ==
    /\ config.limit = None
    /\ config' = [config EXCEPT !.limit = Some(max_shrink_iters_u32(config))]
    /\ UNCHANGED <<treeVars, shrinkVars, runVars, lazyVars, auxVars>>

SpecShrinkIters == ShrinkItersInit /\ [][ShrinkItersCall]_vars

\* C22: max_shrink_iters() returns the field unless the field is u32::MAX,
\* and then four times cases, or u32::MAX when that product is above it; for
\* cases = 256 and the field at u32::MAX (the default Config) it returns 1024
MaxShrinkItersValue ==
    IsSome(config.limit) =>
        LET limit == Unwrap(config.limit)
            max == [hi |-> 65535, lo |-> 65535]
            \* 4 * cases, with an upper half that is not cut to 16 bits
            hi4 == 4 * config.cases.hi + (4 * config.cases.lo) \div 65536
            lo4 == (4 * config.cases.lo) % 65536
        IN /\ config.max_shrink_iters # max => limit = config.max_shrink_iters
           /\ config.max_shrink_iters = max =>
                /\ hi4 <= 65535 => limit = [hi |-> hi4, lo |-> lo4]
                /\ hi4 > 65535 => limit = max
           /\ (config.max_shrink_iters = max
                 /\ config.cases = [hi |-> 0, lo |-> 256]) =>
                limit = [hi |-> 0, lo |-> 1024]

\* C22 witness: with the field at u32::MAX and cases = 2^30 the answer is
\* the saturated product
MaxShrinkItersSaturated ==
    /\ IsSome(config.limit)
    /\ config.max_shrink_iters = [hi |-> 65535, lo |-> 65535]
    /\ config.cases = [hi |-> 16384, lo |-> 0]
    /\ Unwrap(config.limit) = [hi |-> 65535, lo |-> 65535]

(* ---------------------------------------------------------------------- *)
(* StateMachineTest::test_sequential over a reference state machine whose  *)
(* state is a counter and whose transitions add 1 or 2 to it.  The calls   *)
(* made on the test (init_test, apply, check_invariants, teardown) can     *)
(* panic; log is the sequence of calls that were entered.                  *)
(* ---------------------------------------------------------------------- *)

\* the longest list of transitions of a test case
MaxTransitions == 2

\* test_sequential is entered with a reference state, the transitions and
\* the seen counter
SmInit ==
    /\ \E n \in 0 .. MaxTransitions :
        \E ts \in [1 .. n -> {1, 2}] :
         \E r \in {0, 1} :
          \E sc \in {None, Some(0)} :
            sm = [pc |-> "init", transitions |-> ts, ix |-> 0,
                  ref_state |-> r, concrete_state |-> None,
                  seen_counter |-> sc, log |-> <<>>]
    /\ config = DefaultConfig
    /\ flat = NoTree /\ regens = 0 /\ mayReject = FALSE /\ arr = NoTree
    /\ rs = NoTree /\ filt = NoTree /\ live = "none" /\ fh = NoCall
    /\ un = NoTree
    /\ IdleShrink
    /\ IdleRun
    /\ IdleLazy
    /\ env = <<>> /\ minimal = <<>> /\ hooks = <<>>

\* mutant: init_test without the check of the invariants
SmStart_noCheck ==
    /\ sm # <<>> /\ sm.pc = "init"
    /\ sm' = [sm EXCEPT !.pc = "loop",
                        !.concrete_state = Some(sm.ref_state)]
    /\ UNCHANGED <<config, treeVars, shrinkVars, runVars, lazyVars>>
    /\ UNCHANGED <<env, minimal, hooks>>

\* init_test and the check of the invariants on the initial state
SmStart ==
    /\ sm # <<>> /\ sm.pc = "init"
    /\ \E panics \in BOOLEAN :
         sm' = [sm EXCEPT
                  !.pc = IF panics THEN "panicked" ELSE "loop",
                  !.concrete_state = Some(sm.ref_state),
                  !.log = Append(@, [call |-> "check_invariants", ix |-> 0,
                                     state |-> sm.ref_state,
                                     ref_state |-> sm.ref_state])]
    /\ UNCHANGED <<config, treeVars, shrinkVars, runVars, lazyVars>>
    /\ UNCHANGED <<env, minimal, hooks>>

\* mutant: the seen counter is incremented after the transition was applied
SmTurn_countsAfter ==
    /\ sm # <<>> /\ sm.pc = "loop" /\ sm.ix < Len(sm.transitions)
    /\ \E outcome \in {"ok", "apply panics", "check panics"} :
        LET transition == sm.transitions[sm.ix + 1]
            ref_state == sm.ref_state + transition
            concrete_state == Unwrap(sm.concrete_state) + transition
            applied == <<[call |-> "Reference::apply", ix |-> sm.ix + 1,
                          transition |-> transition,
                          ref_state |-> sm.ref_state],
                         [call |-> "apply", ix |-> sm.ix + 1,
                          transition |-> transition,
                          state |-> Unwrap(sm.concrete_state),
                          ref_state |-> ref_state]>>
            checked == <<[call |-> "check_invariants", ix |-> sm.ix + 1,
                          state |-> concrete_state,
                          ref_state |-> ref_state]>>
        IN sm' = [sm EXCEPT
                    !.pc = IF outcome = "ok" THEN "loop" ELSE "panicked",
                    !.ix = @ + 1,
                    !.seen_counter = IF IsSome(@) /\ outcome # "apply panics"
                                     THEN Some(Unwrap(@) + 1)
                                     ELSE @,
                    !.ref_state = ref_state,
                    !.concrete_state = IF outcome = "apply panics" THEN @
                                       ELSE Some(concrete_state),
                    !.log = IF outcome = "apply panics" THEN @ \o applied
                            ELSE @ \o applied \o checked]
    /\ UNCHANGED <<config, treeVars, shrinkVars, runVars, lazyVars>>
    /\ UNCHANGED <<env, minimal, hooks>>

\* one turn of the loop over the transitions: the seen counter, the
\* reference apply, the apply on the system under test and the check of the
\* invariants; apply or check_invariants may panic
SmTurn ==
    /\ sm # <<>> /\ sm.pc = "loop" /\ sm.ix < Len(sm.transitions)
    /\ \E outcome \in {"ok", "apply panics", "check panics"} :
        LET transition == sm.transitions[sm.ix + 1]
            ref_state == sm.ref_state + transition
            concrete_state == Unwrap(sm.concrete_state) + transition
            applied == <<[call |-> "Reference::apply", ix |-> sm.ix + 1,
                          transition |-> transition,
                          ref_state |-> sm.ref_state],
                         [call |-> "apply", ix |-> sm.ix + 1,
                          transition |-> transition,
                          state |-> Unwrap(sm.concrete_state),
                          ref_state |-> ref_state]>>
            checked == <<[call |-> "check_invariants", ix |-> sm.ix + 1,
                          state |-> concrete_state,
                          ref_state |-> ref_state]>>
        IN sm' = [sm EXCEPT
                    !.pc = IF outcome = "ok" THEN "loop" ELSE "panicked",
                    !.ix = @ + 1,
                    !.seen_counter = IF IsSome(@) THEN Some(Unwrap(@) + 1)
                                     ELSE @,
                    !.ref_state = ref_state,
                    !.concrete_state = IF outcome = "apply panics" THEN @
                                       ELSE Some(concrete_state),
                    !.log = IF outcome = "apply panics" THEN @ \o applied
                            ELSE @ \o applied \o checked]
    /\ UNCHANGED <<config, treeVars, shrinkVars, runVars, lazyVars>>
    /\ UNCHANGED <<env, minimal, hooks>>

\* teardown, after the loop
SmTeardown ==
    /\ sm # <<>> /\ sm.pc = "loop" /\ sm.ix = Len(sm.transitions)
    /\ sm' = [sm EXCEPT
                !.pc = "done",
                !.log = Append(@, [call |-> "teardown", ix |-> sm.ix,
                                   state |-> Unwrap(sm.concrete_state),
                                   ref_state |-> sm.ref_state])]
    /\ UNCHANGED <<config, treeVars, shrinkVars, runVars, lazyVars>>
    /\ UNCHANGED <<env, minimal, hooks>>

SpecStateMachine == SmInit /\ [][SmStart \/ SmTurn \/ SmTeardown]_vars

\* C23: the first call is check_invariants on the initial state; after it
\* the calls come three per transition, in the order of the list: the
\* reference apply of the transition, the apply of the same transition on
\* the system under test with the reference state as it is after the
\* transition, and check_invariants with that reference state
SequentialOrder ==
    sm # <<>> =>
        LET RECURSIVE RefAfter(_)
            RefAfter(k) == IF k = 0 THEN sm.log[1].ref_state
                           ELSE RefAfter(k - 1) + sm.transitions[k]
            calls == IF sm.pc = "done" THEN Len(sm.log) - 1 ELSE Len(sm.log)
        IN \A i \in 1 .. calls :
             LET k == (i + 1) \div 3
                 e == sm.log[i]
             IN CASE i = 1 ->
                       /\ e.call = "check_invariants" /\ e.ix = 0
                       /\ e.state = e.ref_state
                  [] i > 1 /\ (i + 1) % 3 = 0 ->
                       /\ e.call = "Reference::apply" /\ e.ix = k
                       /\ e.transition = sm.transitions[k]
                       /\ e.ref_state = RefAfter(k - 1)
                  [] i > 1 /\ (i + 1) % 3 = 1 ->
                       /\ e.call = "apply" /\ e.ix = k
                       /\ e.transition = sm.transitions[k]
                       /\ e.ref_state = RefAfter(k)
                  [] OTHER ->
                       /\ e.call = "check_invariants" /\ e.ix = k
                       /\ e.ref_state = RefAfter(k)

\* C23 witness: a test case of MaxTransitions transitions ran to its end
SequentialRanAll ==
    /\ sm # <<>> /\ sm.pc = "done"
    /\ sm.ix = MaxTransitions
    /\ Len(sm.log) = 3 * MaxTransitions + 2

\* C24 (as claimed): when a test case has ended, teardown was called exactly
\* once, as the last call, with the final states
TeardownOncePerCase ==
    (sm # <<>> /\ sm.pc \in {"done", "panicked"}) =>
        /\ Cardinality({i \in 1 .. Len(sm.log) :
                           sm.log[i].call = "teardown"}) = 1
        /\ sm.log[Len(sm.log)] =
              [call |-> "teardown", ix |-> Len(sm.transitions),
               state |-> Unwrap(sm.concrete_state),
               ref_state |-> sm.ref_state]

(* ---------------------------------------------------------------------- *)
(* is_minimal_case: the thread-local IS_MINIMAL_CASE and its guard.  Each  *)
(* thread has its own flag and a stack of property tests running on it     *)
(* (a test body may itself run a property test); a test is either running  *)
(* its cases or re-running its minimal failing case under the guard.       *)
(* ---------------------------------------------------------------------- *)

\* the deepest nesting of property tests on one thread
MaxNest == 2

\* IS_MINIMAL_CASE starts false on every thread
MinimalInit ==
    /\ minimal = [t \in {1, 2} |->
                    [IS_MINIMAL_CASE |-> FALSE, tests |-> <<>>,
                     nested |-> FALSE, last |-> "none"]]
    /\ config = DefaultConfig
    /\ flat = NoTree /\ regens = 0 /\ mayReject = FALSE /\ arr = NoTree
    /\ rs = NoTree /\ filt = NoTree /\ live = "none" /\ fh = NoCall
    /\ un = NoTree
    /\ IdleShrink
    /\ IdleRun
    /\ IdleLazy
    /\ env = <<>> /\ sm = <<>> /\ hooks = <<>>

\* a property test starts on a thread (inside the body of another one when
\* the thread already runs one), or the innermost one ends without a re-run
TestRun ==
    /\ minimal # <<>>
    /\ \E t \in DOMAIN minimal :
        \/ /\ Len(minimal[t].tests) < MaxNest
           /\ minimal' = [minimal EXCEPT
                            ![t].tests = Append(@, "cases"),
                            ![t].nested = minimal[t].tests # <<>>]
        \/ /\ minimal[t].tests # <<>>
           /\ minimal[t].tests[Len(minimal[t].tests)] = "cases"
           /\ minimal' = [minimal EXCEPT
                            ![t].tests = SubSeq(@, 1, Len(@) - 1)]
    /\ UNCHANGED <<config, treeVars, shrinkVars, runVars, lazyVars>>
    /\ UNCHANGED <<env, sm, hooks>>

\* the innermost test of a thread begins the re-run of its minimal case
begin_minimal_case ==
    /\ minimal # <<>>
    /\ \E t \in DOMAIN minimal :
        /\ minimal[t].tests # <<>>
        /\ minimal[t].tests[Len(minimal[t].tests)] = "cases"
        /\ minimal' = [minimal EXCEPT
                         ![t].IS_MINIMAL_CASE = TRUE,
                         ![t].tests[Len(minimal[t].tests)] = "minimal"]
    /\ UNCHANGED <<config, treeVars, shrinkVars, runVars, lazyVars>>
    /\ UNCHANGED <<env, sm, hooks>>

\* mutant: the guard is dropped without resetting the flag
MinimalCaseGuardDrop_leak ==
    /\ minimal # <<>>
    /\ \E t \in DOMAIN minimal :
        /\ minimal[t].tests # <<>>
        /\ minimal[t].tests[Len(minimal[t].tests)] = "minimal"
        /\ \E how \in {"returned", "panicked"} :
             minimal' = [minimal EXCEPT
                           ![t].tests = SubSeq(@, 1, Len(@) - 1),
                           ![t].last = how]
    /\ UNCHANGED <<config, treeVars, shrinkVars, runVars, lazyVars>>
    /\ UNCHANGED <<env, sm, hooks>>

\* the re-run ends, by returning or by unwinding from a panic; either way
\* the guard is dropped
MinimalCaseGuardDrop ==
    /\ minimal # <<>>
    /\ \E t \in DOMAIN minimal :
        /\ minimal[t].tests # <<>>
        /\ minimal[t].tests[Len(minimal[t].tests)] = "minimal"
        /\ \E how \in {"returned", "panicked"} :
             minimal' = [minimal EXCEPT
                           ![t].IS_MINIMAL_CASE = FALSE,
                           ![t].tests = SubSeq(@, 1, Len(@) - 1),
                           ![t].last = how]
    /\ UNCHANGED <<config, treeVars, shrinkVars, runVars, lazyVars>>
    /\ UNCHANGED <<env, sm, hooks>>

SpecMinimal ==
    MinimalInit /\ [][TestRun \/ begin_minimal_case \/ MinimalCaseGuardDrop]_vars

MaxHookDepth == 2

\* no with_hook call has been made
HooksInit ==
    /\ hooks = [INIT_ONCE |-> FALSE,
                thread |-> [t \in {1, 2} |->
                    [SCOPED_HOOK_PTR |-> None, calls |-> <<>>,
                     panicked |-> FALSE, handler |-> None, depth |-> 0]]]
    /\ config = DefaultConfig
    /\ flat = NoTree /\ regens = 0 /\ mayReject = FALSE /\ arr = NoTree
    /\ rs = NoTree /\ filt = NoTree /\ live = "none" /\ fh = NoCall
    /\ un = NoTree
    /\ IdleShrink
    /\ IdleRun
    /\ IdleLazy
    /\ env = <<>> /\ sm = <<>> /\ minimal = <<>>

\* with_hook up to the call of body: init, the replace of the pointer and
\* the construction of the drop guard that holds the old pointer
with_hook ==
    /\ hooks # <<>>
    /\ \E t \in DOMAIN hooks.thread :
        LET th == hooks.thread[t]
            panic_hook == <<t, Len(th.calls) + 1>>
        IN /\ Len(th.calls) < MaxHookDepth
           /\ hooks' = [hooks EXCEPT
                 !.INIT_ONCE = TRUE,
                 !.thread[t].SCOPED_HOOK_PTR = Some(panic_hook),
                 !.thread[t].calls =
                     Append(@, [panic_hook |-> panic_hook,
                                old_tuple |-> th.SCOPED_HOOK_PTR])]
    /\ UNCHANGED <<config, treeVars, shrinkVars, runVars, lazyVars>>
    /\ UNCHANGED <<env, sm, minimal>>

\* a panic on a thread: the process-wide hook runs on that thread; it is
\* scoped_hook_dispatcher once init has run and the default hook before
scoped_hook_dispatcher ==
    /\ hooks # <<>>
    /\ \E t \in DOMAIN hooks.thread :
        LET th == hooks.thread[t]
        IN hooks' = [hooks EXCEPT
              !.thread[t].panicked = TRUE,
              !.thread[t].handler = IF hooks.INIT_ONCE
                                    THEN th.SCOPED_HOOK_PTR ELSE None,
              !.thread[t].depth = Len(th.calls)]
    /\ UNCHANGED <<config, treeVars, shrinkVars, runVars, lazyVars>>
    /\ UNCHANGED <<env, sm, minimal>>

\* mutant: the drop guard clears the pointer
FinallyDrop_null ==
    /\ hooks # <<>>
    /\ \E t \in DOMAIN hooks.thread :
        LET th == hooks.thread[t]
        IN /\ th.calls # <<>>
           /\ hooks' = [hooks EXCEPT
                 !.thread[t].SCOPED_HOOK_PTR = None,
                 !.thread[t].calls = SubSeq(@, 1, Len(@) - 1)]
    /\ UNCHANGED <<config, treeVars, shrinkVars, runVars, lazyVars>>
    /\ UNCHANGED <<env, sm, minimal>>

\* the innermost with_hook call of a thread is left, by the return of body
\* or by unwinding: the drop guard runs its closure
FinallyDrop ==
    /\ hooks # <<>>
    /\ \E t \in DOMAIN hooks.thread :
        LET th == hooks.thread[t]
        IN /\ th.calls # <<>>
           /\ hooks' = [hooks EXCEPT
                 !.thread[t].SCOPED_HOOK_PTR =
                     th.calls[Len(th.calls)].old_tuple,
                 !.thread[t].calls = SubSeq(@, 1, Len(@) - 1)]
    /\ UNCHANGED <<config, treeVars, shrinkVars, runVars, lazyVars>>
    /\ UNCHANGED <<env, sm, minimal>>

SpecHooks ==
    HooksInit /\ [][with_hook \/ scoped_hook_dispatcher \/ FinallyDrop]_vars

\* C26: on every thread the scoped hook is the hook of the innermost
\* with_hook call in progress on that thread, and none when there is no
\* such call; and the last panic of the thread was passed to the hook of
\* the innermost call in progress on that thread when it happened, or to
\* the default hook when there was none
ScopedHookStack ==
    hooks # <<>> =>
        \A t \in DOMAIN hooks.thread :
            LET th == hooks.thread[t]
            IN /\ th.SCOPED_HOOK_PTR =
                    IF th.calls = <<>> THEN None
                    ELSE Some(<<t, Len(th.calls)>>)
               /\ \A i \in 1 .. Len(th.calls) :
                    th.calls[i].panic_hook = <<t, i>>
               /\ th.panicked =>
                    th.handler = IF th.depth = 0 THEN None
                                 ELSE Some(<<t, th.depth>>)

\* C26 witness: a thread is back in its outer with_hook call after a
\* nested call was left by a panic that the nested hook received, while
\* the other thread has no scoped hook
ScopedHookRestored ==
    /\ hooks # <<>>
    /\ \E t, u \in DOMAIN hooks.thread :
        /\ Len(hooks.thread[t].calls) = 1
        /\ hooks.thread[t].panicked
        /\ hooks.thread[t].handler = Some(<<t, 2>>)
        /\ hooks.thread[t].SCOPED_HOOK_PTR = Some(<<t, 1>>)
        /\ hooks.thread[u].SCOPED_HOOK_PTR = None
        /\ u # t

(* ---------------------------------------------------------------------- *)
(* RangeSubset: the value of a tree against the range and the size range   *)
(* ---------------------------------------------------------------------- *)

FlattenSimplifyOuterFirst ==
    [][(live = "flatten" /\ fh'.op = "simplify") =>
        LET drew == fh'.drawn - fh.drawn
            ms == Fuse_simplify(flat.meta)
            cs == BinarySearch_simplify(flat.current.inner)
            a1 == flat'.meta.inner.curr
        IN /\ (ms.ret /\ ~mayReject) => drew = 1
           /\ drew = 1 =>
                /\ ms.ret /\ fh'.ret
                /\ a1 = ms.t.inner.curr
                /\ \E d \in Draws(a1, FALSE) :
                      flat'.current = Fuse_new(InnerNewTree(a1, Unwrap(d)))
                /\ FlattenCurrent(flat')[1] = a1
                /\ IsSome(flat'.last_complication)
                /\ Unwrap(flat'.last_complication).inner = flat.current.inner
           /\ drew = 0 =>
                /\ ~ms.ret \/ mayReject
                /\ fh'.ret =>
                     /\ cs.ret /\ flat'.current.inner = cs.t
                     /\ IsSome(flat'.last_complication)
                     /\ Unwrap(flat'.last_complication).inner =
                            flat.current.inner
                /\ ~fh'.ret =>
                     /\ FlattenCurrent(flat') = FlattenCurrent(flat)
                     /\ flat'.last_complication = flat.last_complication
    ]_vars

\* C28 witness: a simplify() call lowered the outer value and left a new
\* inner tree with the previous one remembered
FlattenOuterSimplified ==
    /\ live = "flatten" /\ fh.op = "simplify" /\ fh.ret
    /\ FlattenCurrent(flat)[1] < fh.before[1]
    /\ IsSome(flat.last_complication)
    /\ Unwrap(flat.last_complication).inner.a = fh.before[1]
    /\ Unwrap(flat.last_complication).inner.curr = fh.before[2]

\* C29 (as claimed): every simplify() call on a Flatten tree that simplifies
\* the outer tree and draws a new inner tree takes one unit of the
\* regeneration budget
FlattenSimplifyCharged ==
    [][(live = "flatten" /\ fh'.op = "simplify"
            /\ fh'.drawn = fh.drawn + 1) =>
        /\ regens' = regens + 1
        /\ fh'.charged = fh.charged + 1
    ]_vars

\* C30 (as claimed): a complicate() call on a Flatten tree draws a new inner
\* tree only after complicating the outer tree and only while the
\* regeneration budget remains; when it draws none it complicates the inner
\* tree in place, or else puts the remembered tree back; and it returns
\* false only when none of the three is possible
FlattenComplicateOrder ==
    [][(live = "flatten" /\ fh'.op = "complicate") =>
        LET drew == fh'.drawn - fh.drawn
            budget == regens < config.max_flat_map_regens
            mc == Fuse_complicate(flat.meta)
            cc == Fuse_complicate(flat.current)
        IN /\ drew = 1 =>
                /\ budget /\ mc.ret /\ fh'.ret
                /\ flat'.meta.inner = mc.t.inner
           /\ (drew = 0 /\ cc.ret) =>
                /\ fh'.ret /\ flat'.current = cc.t
           /\ (drew = 0 /\ ~cc.ret /\ IsSome(flat.last_complication)) =>
                /\ fh'.ret
                /\ flat'.current = Unwrap(flat.last_complication)
                /\ flat'.last_complication = None
           /\ ~fh'.ret =>
                /\ ~cc.ret /\ flat.last_complication = None
                /\ ~mc.ret \/ ~budget \/ mayReject
    ]_vars

(* ---------------------------------------------------------------------- *)
(* Array: what one simplify() or complicate() call does to the slots       *)
(* ---------------------------------------------------------------------- *)

\* C31: a simplify() call on an array tree that returns true has simplified
\* the slot of the lowest index whose tree can be simplified, has left the
\* values of the other slots as they were and has recorded that slot, and one that
\* returns false found no slot that can be simplified; a complicate() call
\* complicates the recorded slot and returns what that slot returns, and it
\* never changes another slot
ArraySlotOrder ==
    [][(live = "array" /\ fh'.op \in {"simplify", "complicate"}) =>
        LET can(i) == BinarySearch_simplify(arr.tree[i + 1]).ret
            others(s) == \A i \in 0 .. (ArrayLen - 1) :
                            i # s => arr'.tree[i + 1] = arr.tree[i + 1]
            values(s) == \A i \in 0 .. (ArrayLen - 1) :
                            i # s => ArrayCurrent(arr')[i + 1] =
                                        ArrayCurrent(arr)[i + 1]
        IN IF fh'.op = "simplify"
           THEN IF fh'.ret
                THEN LET s == arr'.shrinker
                     IN /\ can(s) /\ \A i \in 0 .. (s - 1) : ~can(i)
                        /\ arr'.tree[s + 1] =
                              BinarySearch_simplify(arr.tree[s + 1]).t
                        /\ values(s)
                        /\ arr'.last_shrinker = Some(s)
                ELSE /\ \A i \in 0 .. (ArrayLen - 1) : ~can(i)
                     /\ ArrayCurrent(arr') = ArrayCurrent(arr)
           ELSE IF IsSome(arr.last_shrinker)
                THEN LET s == Unwrap(arr.last_shrinker)
                         r == BinarySearch_complicate(arr.tree[s + 1])
                     IN /\ fh'.ret = r.ret
                        /\ arr'.tree[s + 1] = r.t
                        /\ others(s)
                        /\ arr'.shrinker = s
                ELSE ~fh'.ret /\ arr' = arr
    ]_vars

\* C31 witness: a complicate() call went back from a later slot to the
\* recorded one and was refused by it
ArrayRecordedSlotRefused ==
    /\ live = "array" /\ fh.op = "complicate" /\ ~fh.ret
    /\ ~fh.exhaustedBefore
    /\ arr.last_shrinker = None
    /\ arr.shrinker = 0
    /\ arr.tree[2].curr > 0

(* ---------------------------------------------------------------------- *)
(* Filter: where a simplify() or complicate() call comes to rest           *)
(* ---------------------------------------------------------------------- *)

\* C32 (as claimed): a simplify() or complicate() call on a Filter tree that
\* returns leaves a value on which the predicate holds and that is not past
\* the value current() had before the call
FilterNeverPastBefore ==
    (live = "filter" /\ fh.op \in {"simplify", "complicate"}
        /\ ~filt.panicked) =>
        /\ FilterPred(filt.pred, FilterCurrent(filt))
        /\ FilterCurrent(filt) <= fh.before

\* C32 (amended): after the inner call of a simplify() or complicate() that
\* returns true, the tree complicates the source until the predicate holds:
\* every value it passes on the way is rejected and the value it stops at
\* is accepted, or the source refuses on a rejected value and the call
\* panics; a simplify() never ends above the value of before the call, and
\* a complicate() ends above that value and never above the upper end of
\* the source
FilterStopsAtFirstAccepted ==
    [][(live = "filter" /\ fh'.op \in {"simplify", "complicate"}
            /\ fh'.ret) =>
        LET inner == IF fh'.op = "simplify"
                     THEN BinarySearch_simplify(filt.source)
                     ELSE SourceComplicate(filt)
            RECURSIVE Passed(_)
            Passed(t) ==
                IF FilterPred(t.pred, t.source.curr)
                THEN filt' = t
                ELSE LET r == SourceComplicate(t)
                     IN IF r.ret THEN Passed([t EXCEPT !.source = r.t])
                        ELSE /\ filt'.panicked
                             /\ filt'.source.curr = t.source.curr
        IN /\ inner.ret
           /\ Passed([filt EXCEPT !.source = inner.t])
           /\ ~filt'.panicked =>
                /\ FilterPred(filt'.pred, FilterCurrent(filt'))
                /\ IF fh'.op = "simplify"
                   THEN FilterCurrent(filt') <= FilterCurrent(filt)
                   ELSE /\ FilterCurrent(filt') > FilterCurrent(filt)
                        /\ FilterCurrent(filt') <= filt.source.hi
    ]_vars

\* C32 witness: a simplify() call lowered the source to a rejected value
\* and complicated it until it was back at the value of before the call,
\* the first accepted one on the way
FilterComplicatedBack ==
    /\ live = "filter" /\ ~filt.panicked
    /\ fh.op = "simplify" /\ fh.ret
    /\ FilterCurrent(filt) = fh.before
    /\ FilterCurrent(filt) > 0
    /\ filt.source.lo = FilterCurrent(filt)

\* C33 (as claimed): on every thread the property test that is running (the
\* innermost one) observes its own signal: is_minimal_case() is true
\* exactly when that test is re-running its minimal case, whatever the
\* tests around it or the ones that ended inside it did
MinimalSignalPerRun ==
    minimal # <<>> =>
        \A t \in DOMAIN minimal :
            minimal[t].tests # <<>> =>
                (minimal[t].IS_MINIMAL_CASE <=>
                    minimal[t].tests[Len(minimal[t].tests)] = "minimal")

\* C34 (as claimed): after any calls of simplify() and complicate() on a
\* RangeSubset tree the value has at least min_size elements and at most as
\* many as were drawn, and it is a subsequence of the value first drawn
SubsetKeepsMinimumSize ==
    live = "subset" =>
        LET value == SubsetCurrent(rs)
            RECURSIVE Subsequence(_, _)
            Subsequence(i, j) ==
                IF i > Len(value) THEN TRUE
                ELSE IF j > Len(rs.values) THEN FALSE
                ELSE IF value[i] = rs.values[j]
                     THEN Subsequence(i + 1, j + 1)
                     ELSE Subsequence(i, j + 1)
        IN /\ Subsequence(1, 1)
           /\ Len(value) <= Len(rs.values)
           /\ fh.op \in {"simplify", "complicate"} =>
                 Len(value) >= rs.min_size

\* C35 (as claimed): whatever the order of the variables, a
\* FullHexEncodedSeed in the resulting Config has the length that the
\* resulting rng_algorithm expects
SeedLengthMatchesAlgorithm ==
    (env # <<>> /\ env.result.rng_seed.kind = "FullHexEncodedSeed") =>
        Len(env.result.rng_seed.seed) =
            IF env.result.rng_algorithm = "XorShift"
            THEN XorShiftSeedLen ELSE ChaChaSeedLen

\* C36 (as claimed): RngSeed::from_str accepts a value "hex-" s exactly when
\* s is an even number of hexadecimal digits, and the seed it yields is the
\* bytes that s encodes; so a FullHexEncodedSeed that PROPTEST_RNG_SEED put
\* into the Config is the decoding of a well-formed value
HexSeedDecoded ==
    (env # <<>> /\ env.var = "PROPTEST_RNG_SEED" /\ IsSome(env.value)
        /\ Len(Unwrap(env.value)) >= 4
        /\ SubSeq(Unwrap(env.value), 1, 4) = <<"h", "e", "x", "-">>) =>
        LET s == SubSeq(Unwrap(env.value), 5, Len(Unwrap(env.value)))
            wellFormed == /\ Len(s) % 2 = 0
                          /\ \A i \in 1 .. Len(s) : s[i] \in DOMAIN HexVal
            decoded == [i \in 1 .. (Len(s) \div 2) |->
                           16 * HexVal[s[2 * i - 1]] + HexVal[s[2 * i]]]
            r == parse("RngSeed", Unwrap(env.value))
        IN /\ IsSome(r) <=> wellFormed
           /\ IsSome(r) => Unwrap(r) = [kind |-> "FullHexEncodedSeed",
                                        seed |-> decoded]
           /\ env.result.rng_seed # env.before.rng_seed =>
                 /\ wellFormed
                 /\ env.result.rng_seed.seed = decoded

(* ---------------------------------------------------------------------- *)
(* Scoped panic hooks: init() step by step under concurrent with_hook      *)
(* calls.  hook is the process-wide panic hook: the one that was installed *)
(* before ("original"), the one of the standard library that take_hook     *)
(* leaves behind ("std"), or scoped_hook_dispatcher.  A panic on a thread  *)
(* without a scoped hook is recorded with the hook that received it.       *)
(* ---------------------------------------------------------------------- *)

\* the number of threads
MaxThreads == 2

\* no thread has called with_hook; a custom hook or the standard one is
\* installed
HookInitInit ==
    /\ \E original \in {"custom", "std"} :
         hooks = [INIT_ONCE |-> "new", original |-> original,
                  hook |-> original, old_handler |-> None,
                  DEFAULT_HOOK |-> None, set_hooks |-> 0, stores |-> 0,
                  pc |-> [t \in 1 .. MaxThreads |-> "idle"],
                  panics |-> 0, received |-> "original"]
    /\ config = DefaultConfig
    /\ flat = NoTree /\ regens = 0 /\ mayReject = FALSE /\ arr = NoTree
    /\ rs = NoTree /\ filt = NoTree /\ live = "none" /\ fh = NoCall
    /\ un = NoTree
    /\ IdleShrink
    /\ IdleRun
    /\ IdleLazy
    /\ env = <<>> /\ sm = <<>> /\ minimal = <<>>

\* one step of a with_hook call of a thread: call_once (run the closure,
\* wait for the thread that runs it, or pass), the three statements of the
\* closure, the body under the scoped hook, and the return
init ==
    /\ hooks # <<>>
    /\ \E t \in DOMAIN hooks.pc :
        \/ /\ hooks.pc[t] = "idle" /\ hooks.INIT_ONCE = "new"
           /\ hooks' = [hooks EXCEPT !.INIT_ONCE = "running",
                                     !.pc[t] = "take_hook"]
        \/ /\ hooks.pc[t] = "idle" /\ hooks.INIT_ONCE = "running"
           /\ hooks' = [hooks EXCEPT !.pc[t] = "wait"]
        \/ /\ hooks.pc[t] \in {"idle", "wait"} /\ hooks.INIT_ONCE = "done"
           /\ hooks' = [hooks EXCEPT !.pc[t] = "body"]
        \/ /\ hooks.pc[t] = "take_hook"
           /\ hooks' = [hooks EXCEPT !.old_handler = Some(hooks.hook),
                                     !.hook = "std",
                                     !.pc[t] = "set_hook"]
        \/ /\ hooks.pc[t] = "set_hook"
           /\ hooks' = [hooks EXCEPT !.hook = "scoped_hook_dispatcher",
                                     !.set_hooks = Min(@ + 1, 2),
                                     !.pc[t] = "store"]
        \/ /\ hooks.pc[t] = "store"
           /\ hooks' = [hooks EXCEPT !.DEFAULT_HOOK = hooks.old_handler,
                                     !.stores = Min(@ + 1, 2),
                                     !.INIT_ONCE = "done",
                                     !.pc[t] = "body"]
        \/ /\ hooks.pc[t] = "body"
           /\ hooks' = [hooks EXCEPT !.pc[t] = "idle"]
    /\ UNCHANGED <<config, treeVars, shrinkVars, runVars, lazyVars>>
    /\ UNCHANGED <<env, sm, minimal>>

\* a panic on a thread that has no scoped hook installed: the process-wide
\* hook runs; the dispatcher finds SCOPED_HOOK_PTR null and reads
\* DEFAULT_HOOK, which it calls if it is Some.  The read is not ordered
\* with the write of the thread at "store", so next to that write it may
\* see either value
PanicOutsideScope ==
    /\ hooks # <<>>
    /\ \E t \in DOMAIN hooks.pc :
        /\ hooks.pc[t] = "idle"
        /\ \E seen \in {hooks.DEFAULT_HOOK} \cup
                       (IF \E u \in DOMAIN hooks.pc : hooks.pc[u] = "store"
                        THEN {hooks.old_handler} ELSE {}) :
             hooks' = [hooks EXCEPT
                 !.panics = 1,
                 !.received =
                     IF hooks.hook # "scoped_hook_dispatcher"
                     THEN (IF hooks.hook = hooks.original THEN "original"
                           ELSE hooks.hook)
                     ELSE IF IsSome(seen) THEN "original" ELSE "none"]
    /\ UNCHANGED <<config, treeVars, shrinkVars, runVars, lazyVars>>
    /\ UNCHANGED <<env, sm, minimal>>

SpecHookInit == HookInitInit /\ [][init \/ PanicOutsideScope]_vars

\* C37 (as claimed): the dispatcher is installed at most once and the
\* original hook stored at most once, both exactly once when init is done,
\* and every panic on a thread without a scoped hook was received by the
\* original hook
HookInitOnceAndDelivered ==
    (hooks # <<>>) =>
        /\ hooks.set_hooks <= 1 /\ hooks.stores <= 1
        /\ hooks.INIT_ONCE = "done" =>
              /\ hooks.set_hooks = 1 /\ hooks.stores = 1
              /\ hooks.DEFAULT_HOOK = Some(hooks.original)
        /\ hooks.received = "original"

\* C38: when the seen counter is Some, its value is the number of
\* transitions whose application has started, the one whose apply panicked
\* included; when it is None it stays None
SeenCounterCountsStarted ==
    sm # <<>> =>
        LET started == Cardinality({i \in 1 .. Len(sm.log) :
                                       sm.log[i].call = "apply"})
        IN /\ started = sm.ix
           /\ sm.seen_counter \in {None, Some(started)}

\* C38 witness: the apply of the last of MaxTransitions transitions
\* panicked and the counter has counted it
SeenCountedPanickedApply ==
    /\ sm # <<>> /\ sm.pc = "panicked"
    /\ sm.log[Len(sm.log)].call = "apply"
    /\ sm.log[Len(sm.log)].ix = MaxTransitions
    /\ sm.seen_counter = Some(MaxTransitions)

\* C39: a simplify() or complicate() call on a Flatten, Array or RangeSubset
\* tree that returns false leaves current() as it was before the call
FalseLeavesCurrent ==
    (live \in {"flatten", "array", "subset"}
        /\ fh.op \in {"simplify", "complicate"} /\ ~fh.ret) =>
        fh.before = CASE live = "flatten" -> FlattenCurrent(flat)
                      [] live = "array" -> ArrayCurrent(arr)
                      [] OTHER -> SubsetCurrent(rs)

\* C39 witness: a simplify() call on a Flatten tree returned false after it
\* had lowered the outer value and the draw of the new inner tree was
\* rejected
FlattenFalseAfterOuterMoved ==
    /\ live = "flatten" /\ fh.op = "simplify" /\ ~fh.ret
    /\ flat.meta.inner.curr < FlattenCurrent(flat)[1]
    /\ fh.before = FlattenCurrent(flat)

====
